---- MODULE Spec2Model ----
(***************************************************************************)
(* HankookTire SmartSensor 2.0: the self-healing monitoring loop            *)
(* (monitoring/auto-recovery/self_healing_system.py) and the anomaly        *)
(* fusion stage (monitoring/ai-analytics/anomaly_detector.py).              *)
(*                                                                         *)
(* Three specifications share the variables below:                         *)
(*   Spec        the monitoring loop: health scan, recovery planning with   *)
(*               the cooldown ledger, parallel execution of the plan, the   *)
(*               chaos test with its verification re-plan, the sleep.       *)
(*   SpecFusion  run_comprehensive_analysis: detector results are           *)
(*               concatenated, then deduplicate_and_prioritize is applied.  *)
(*   SpecHealth  update_system_status applied to active-incident lists.     *)
(***************************************************************************)
EXTENDS Integers, Sequences, FiniteSets, Bags, TLC

VARIABLES
    \* ---- SelfHealingSystem (monitoring loop) ----
    now,               \* datetime.now(), in units of one monitoring interval
    pc,                \* position of continuous_health_monitoring
    phase,             \* "cycle": regular pass, "verify": verify_system_recovery
    health_issues,     \* list returned by perform_comprehensive_health_check
    recovery_plan,     \* list of <<issue, action>> from analyze_and_plan_recovery
    recovery_tasks,    \* tasks created by execute_recovery_plan
    action_cooldowns,  \* self.action_cooldowns: cooldown_key -> time of claim
    last_dispatch,     \* history: cooldown_key -> time its last task was created
    \* ---- AdvancedAnomalyDetector (fusion) ----
    fusion_pc,         \* position of run_comprehensive_analysis
    all_results,       \* concatenated detector results
    sorted_results,    \* value returned by deduplicate_and_prioritize
    \* ---- update_system_status ----
    active_issues,     \* system_status['active_issues'], as a bag of severities
    health_score,      \* value published to system_health_score
    \* ---- backend/app/main.py: the background workers ----
    tick,              \* iterations of data_processing_worker so far
    raw_data,          \* iot_manager.collect_all_data() of the last iteration
    processed_data,    \* preprocess_sensor_data(raw_data), or the error raised
    sensor_readings,   \* db.sensor_readings, in insertion order
    last_broadcast,    \* the "sensor_update" payload of the last iteration
    recent_data,       \* get_recent_sensor_data() in ai_inference_worker
    sequence_data,     \* rows predict_tire_life_lstm gives to the model
    \* ---- model-based scoring of one device's readings ----
    scoring_path,      \* the scorer that was called last
    scoring_rows,      \* number of readings it was called with
    model_rows,        \* number of rows it gave to its model (0: model not run)
    \* ---- the long-running loops and the application's events ----
    app_pc,            \* startup_event / serving / shutdown_event of main.py
    worker_state,      \* loop -> "not_started", "running" or "returned"
    consecutive_failures, \* history: loop -> iterations that raised in a row
    \* ---- scaling of deployments by the self-healing system ----
    replicas,          \* deployment -> spec.replicas in the orchestrator
    scaling_predictor, \* self.scaling_predictor: "none" or "trained"
    scaling_decision,  \* what predictive_scaling did in its last call
    scale_history,     \* history: deployment -> times of its last scalings
    \* ---- the external systems the probes call ----
    capability,        \* probe -> "up", "down" (the call raises and the probe
                       \* handles it), "bad_status", "raises" (the probe raises)
    \* ---- notifications ----
    webhooks,          \* SLACK_WEBHOOK and ALERT_WEBHOOK: set or empty, once read
    notifications,     \* what send_recovery_notification was given to post
    anomaly_run,       \* results given to send_anomaly_alerts, per severity
    alerted,           \* results in the payload it posted, per severity
    \* ---- active incidents and stored anomalies ----
    status_active,     \* system_status['active_issues'], the list itself
    status_before,     \* the list it held before the last update
    anomalies,         \* rows of the table analytics.anomalies
    last_results,      \* keys of the results of the latest analysis run
    runs,              \* analysis runs so far
    \* ---- recovery actions and their records ----
    recovery_history,  \* self.recovery_history
    circuit_breakers,  \* system_status['circuit_breakers']
    \* ---- requests to the orchestrator ----
    patch_requests,    \* replica changes the last scaling call asked for
    \* ---- chaos tests of the self-healing system ----
    chaos_enabled,     \* ENABLE_CHAOS_ENGINEERING, read from the environment
    chaos_log,         \* history: the injections and what verification found
    \* ---- the quality score of a raw reading ----
    quality_call,      \* calculate_data_quality: its last data and result
    \* ---- rule-based probes ----
    rule_scan,         \* the last rule-based probe: its metrics and its issues
    \* ---- the deployment a recovery action acts on ----
    target_calls,      \* history: the last two calls of restart_pod / scale_deployment
    \* ---- RateLimiter of api_optimizer.py, one key ----
    limiter_clock,     \* int(time.time())
    limiter_key,       \* the sorted set of the key in Redis, and its expiry
    limiter_calls,     \* history: the calls of is_allowed and their answers
    \* ---- check_rate_limit of the security managers, one identifier ----
    store_clock,       \* seconds
    counter_key,       \* the key rate_limit:<identifier> in Redis
    rate_call,         \* the call in progress: where it is, what it read
    rate_answers,      \* history: the answers of check_rate_limit
    \* ---- CacheManager of api_optimizer.py ----
    cache_clock,       \* time.time(), in seconds
    memory_cache,      \* self.memory_cache, in the order of insertion
    redis_cache,       \* the keys set in Redis and their expiry
    cache_get,         \* the last call of get and the entry it returned
    \* ---- HealthChecker of health-check.py ----
    fleet_result,      \* the result of check_sensor_connectivity
    fleet_overall      \* the last answer of get_overall_status

loop_vars == <<now, pc, phase, health_issues, recovery_plan, recovery_tasks,
               action_cooldowns, last_dispatch>>
fusion_vars == <<fusion_pc, all_results, sorted_results>>
status_vars == <<active_issues, health_score>>
backend_vars == <<tick, raw_data, processed_data, sensor_readings,
                  last_broadcast, recent_data, sequence_data>>
coldstart_vars == <<scoring_path, scoring_rows, model_rows>>
lifecycle_vars == <<app_pc, worker_state, consecutive_failures>>
scaling_vars == <<replicas, scaling_predictor, scaling_decision, scale_history>>
notify_vars == <<webhooks, notifications, anomaly_run, alerted>>
resolution_vars == <<status_active, status_before, anomalies, last_results,
                     runs>>
recovery_vars == <<recovery_history, circuit_breakers>>
chaos_vars == <<chaos_enabled, chaos_log>>
quality_vars == <<quality_call>>
rules_vars == <<rule_scan>>
target_vars == <<target_calls>>
limiter_vars == <<limiter_clock, limiter_key, limiter_calls>>
store_vars == <<store_clock, counter_key, rate_call, rate_answers>>
cache_vars == <<cache_clock, memory_cache, redis_cache, cache_get>>
fleet_vars == <<fleet_result, fleet_overall>>
\* The state of the components outside the monitoring loop.
platform_vars == <<chaos_vars, quality_vars, rules_vars, target_vars, limiter_vars, store_vars, cache_vars, fleet_vars>>
\* The platform state that the actions of one component leave alone.
rest_chaos == <<quality_vars, rules_vars, target_vars, limiter_vars,
    store_vars, cache_vars, fleet_vars>>
rest_quality == <<chaos_vars, rules_vars, target_vars, limiter_vars,
    store_vars, cache_vars, fleet_vars>>
rest_rules == <<chaos_vars, quality_vars, target_vars, limiter_vars,
    store_vars, cache_vars, fleet_vars>>
rest_target == <<chaos_vars, quality_vars, rules_vars, limiter_vars,
    store_vars, cache_vars, fleet_vars>>
rest_limiter == <<chaos_vars, quality_vars, rules_vars, target_vars,
    store_vars, cache_vars, fleet_vars>>
rest_store == <<chaos_vars, quality_vars, rules_vars, target_vars,
    limiter_vars, cache_vars, fleet_vars>>
rest_cache == <<chaos_vars, quality_vars, rules_vars, target_vars,
    limiter_vars, store_vars, fleet_vars>>
rest_fleet == <<chaos_vars, quality_vars, rules_vars, target_vars,
    limiter_vars, store_vars, cache_vars>>
ext_vars == <<backend_vars, coldstart_vars, lifecycle_vars, scaling_vars,
              capability, notify_vars, resolution_vars, recovery_vars,
              patch_requests,
    platform_vars>>
vars == <<loop_vars, fusion_vars, status_vars, ext_vars>>

\* What the actions of one component leave alone.
core_vars == <<loop_vars, fusion_vars, status_vars>>
settled_vars == <<core_vars, backend_vars, coldstart_vars, lifecycle_vars,
                  scaling_vars, capability, notify_vars, resolution_vars,
                  recovery_vars, patch_requests>>
others_backend == <<core_vars, coldstart_vars, lifecycle_vars, scaling_vars,
                    capability, notify_vars, resolution_vars, recovery_vars,
                    patch_requests,
    platform_vars>>
others_coldstart == <<core_vars, backend_vars, lifecycle_vars, scaling_vars,
                      capability, notify_vars, resolution_vars,
                      recovery_vars, patch_requests,
    platform_vars>>
others_lifecycle == <<core_vars, backend_vars, coldstart_vars, scaling_vars,
                      capability, notify_vars, resolution_vars,
                      recovery_vars, patch_requests,
    platform_vars>>
others_scaling == <<phase, recovery_tasks, last_dispatch, fusion_vars,
                    status_vars, backend_vars, coldstart_vars,
                    lifecycle_vars, capability, notify_vars, resolution_vars,
                    recovery_vars, patch_requests,
    platform_vars>>
others_probes == <<now, phase, recovery_plan, recovery_tasks,
                   action_cooldowns, last_dispatch, fusion_vars, status_vars,
                   backend_vars, coldstart_vars, lifecycle_vars,
                   scaling_vars, notify_vars, resolution_vars, recovery_vars,
                   patch_requests,
    platform_vars>>
others_notify == <<now, pc, phase, recovery_plan, recovery_tasks,
                   last_dispatch, fusion_vars, status_vars, backend_vars,
                   coldstart_vars, lifecycle_vars, scaling_vars, capability,
                   resolution_vars, recovery_vars, patch_requests,
    platform_vars>>
others_resolution == <<now, pc, phase, recovery_plan, recovery_tasks,
                       action_cooldowns, last_dispatch, fusion_vars,
                       status_vars, backend_vars, coldstart_vars,
                       lifecycle_vars, scaling_vars, capability, notify_vars,
                       recovery_vars, patch_requests,
    platform_vars>>
others_recovery == <<pc, phase, recovery_tasks, last_dispatch, fusion_vars,
                     status_vars, backend_vars, coldstart_vars,
                     lifecycle_vars, scaling_predictor, scaling_decision,
                     scale_history, capability, webhooks, anomaly_run,
                     alerted, resolution_vars, patch_requests,
    platform_vars>>
others_replicas == <<core_vars, backend_vars, coldstart_vars, lifecycle_vars,
                     scaling_predictor, scaling_decision, scale_history,
                     capability, notify_vars, resolution_vars, recovery_vars,
    platform_vars>>

(***************************************************************************)
(* Bounds of the model.                                                    *)
(***************************************************************************)
MaxTime == 12          \* the clock stops advancing here
MaxIssues == 2         \* issues in one health-issue list
MaxResults == 3        \* detector results concatenated in one analysis run
MaxActiveIssues == 11  \* incidents in one list given to update_system_status
MaxTicks == 6          \* iterations of data_processing_worker
MaxRows == 62          \* readings of one device given to a scorer
MaxFailures == 3       \* iterations of one loop that raise in a row
MaxCycles == 5         \* monitoring cycles with scaling
MaxRuns == 3           \* anomaly-analysis runs
MaxAnomalies == 11     \* results of one severity in one anomaly-analysis run

(***************************************************************************)
(* anomaly_detector.py: SeverityLevel, AnomalyResult, the detectors.        *)
(***************************************************************************)
SeverityLevel_LOW == 1
SeverityLevel_MEDIUM == 2
SeverityLevel_HIGH == 3
SeverityLevel_CRITICAL == 4
SeverityLevel_EMERGENCY == 5

DeviceIds == {"D1", "D2"}
AnomalyTypes == {"temperature_anomaly", "pressure_anomaly"}
Timestamps == {1, 2}

\* Scores are kept in hundredths: 45 stands for 0.45.
\* detect_isolation_forest_anomalies: severity from the decision score
\* (score < 0 for a flagged row; mag = abs(score) is the confidence).
IsolationForestSeverity(mag) ==
    IF mag > 50 THEN SeverityLevel_CRITICAL
    ELSE IF mag > 30 THEN SeverityLevel_HIGH
    ELSE IF mag > 10 THEN SeverityLevel_MEDIUM
    ELSE SeverityLevel_LOW

\* detect_lstm_anomalies: severity from the prediction error (error > 0.1).
LstmSeverity(error) ==
    IF error > 30 THEN SeverityLevel_CRITICAL
    ELSE IF error > 20 THEN SeverityLevel_HIGH
    ELSE IF error > 15 THEN SeverityLevel_MEDIUM
    ELSE SeverityLevel_LOW

\* confidence_score = min(error * 10, 1.0)
LstmConfidence(error) == IF error * 10 < 100 THEN error * 10 ELSE 100

IsolationForestScores == {45, 60}   \* HIGH, CRITICAL
LstmErrors == {25, 35}              \* HIGH, CRITICAL

AnomalyResult(d, ty, sev, conf, ts, model) ==
    [device_id |-> d, anomaly_type |-> ty, severity |-> sev,
     confidence_score |-> conf, timestamp |-> ts, model_used |-> model]

\* The results detect_isolation_forest_anomalies can append: any device,
\* any classified type, any row.
IsolationForestResults ==
    {AnomalyResult(d, ty, IsolationForestSeverity(m), m, ts, "Isolation Forest") :
        d \in DeviceIds, ty \in AnomalyTypes, m \in IsolationForestScores,
        ts \in Timestamps}

\* The results detect_lstm_anomalies can append: always TEMPERATURE_ANOMALY.
LstmResults ==
    {AnomalyResult(d, "temperature_anomaly", LstmSeverity(e), LstmConfidence(e),
                   ts, "LSTM") :
        d \in DeviceIds, e \in LstmErrors, ts \in Timestamps}

(***************************************************************************)
(* deduplicate_and_prioritize                                              *)
(***************************************************************************)
\* key = f"{result.device_id}_{result.anomaly_type.value}"
ResultKey(result) == result.device_id \o "_" \o result.anomaly_type

\* Faulty variants of Supersedes: the comparison reversed; never replacing;
\* replacing on equal severity too.
Supersedes_Lower(result, kept) == result.severity < kept.severity
Supersedes_Never(result, kept) == FALSE
Supersedes_OrEqual(result, kept) == result.severity >= kept.severity

\* "key not in unique_results or result.severity.value > ...severity.value"
Supersedes(result, kept) == result.severity > kept.severity

\* The dict unique_results: `order` lists the keys in insertion order (a
\* Python dict keeps the position of a key whose value is reassigned),
\* `val` maps each key to the result kept for it.
EmptyDict == [order |-> <<>>, val |-> <<>>]

DictPut(dict, key, result) ==
    IF key \in DOMAIN dict.val
    THEN [order |-> dict.order,
          val |-> [k \in DOMAIN dict.val |->
                     IF k = key THEN result ELSE dict.val[k]]]
    ELSE [order |-> Append(dict.order, key),
          val |-> [k \in DOMAIN dict.val \cup {key} |->
                     IF k = key THEN result ELSE dict.val[k]]]

RECURSIVE UniqueResults(_, _)
UniqueResults(results, dict) ==
    IF results = <<>> THEN dict
    ELSE LET result == Head(results)
             key == ResultKey(result)
         IN  IF key \notin DOMAIN dict.val \/ Supersedes(result, dict.val[key])
             THEN UniqueResults(Tail(results), DictPut(dict, key, result))
             ELSE UniqueResults(Tail(results), dict)

\* unique_results.values()
DictValues(dict) == [i \in 1..Len(dict.order) |-> dict.val[dict.order[i]]]

\* Faulty variant of SortKeyLess: the confidence left out of the sort key.
SortKeyLess_SeverityOnly(a, b) == a.severity < b.severity

\* The sort key (x.severity.value, x.confidence_score), compared as tuples.
SortKeyLess(a, b) ==
    \/ a.severity < b.severity
    \/ a.severity = b.severity /\ a.confidence_score < b.confidence_score

\* sorted(..., reverse=True) is stable: elements with equal keys keep their
\* original relative order.  Insertion of x behind every element whose key
\* is not smaller than x's.
RECURSIVE InsertDescending(_, _)
InsertDescending(x, s) ==
    IF s = <<>> THEN <<x>>
    ELSE IF SortKeyLess(Head(s), x) THEN <<x>> \o s
    ELSE <<Head(s)>> \o InsertDescending(x, Tail(s))

RECURSIVE SortedDescending(_, _)
SortedDescending(todo, done) ==
    IF todo = <<>> THEN done
    ELSE SortedDescending(Tail(todo), InsertDescending(Head(todo), done))

deduplicate_and_prioritize(results) ==
    SortedDescending(DictValues(UniqueResults(results, EmptyDict)), <<>>)

(***************************************************************************)
(* update_system_status                                                    *)
(***************************************************************************)
Severity_INFO == 1
Severity_WARNING == 2
Severity_ERROR == 3
Severity_CRITICAL == 4
Severity_EMERGENCY == 5
Severities == Severity_INFO..Severity_EMERGENCY

\* Faulty variant of SeverityWeight: EMERGENCY weighted like INFO.
SeverityWeight_EmergencyAsInfo(sev) ==
    CASE sev = Severity_INFO -> 1
      [] sev = Severity_WARNING -> 3
      [] sev = Severity_ERROR -> 6
      [] sev = Severity_CRITICAL -> 8
      [] sev = Severity_EMERGENCY -> 1

\* severity_weights, times 10 (total_impact * 10 is what is subtracted).
SeverityWeight(sev) ==
    CASE sev = Severity_INFO -> 1
      [] sev = Severity_WARNING -> 3
      [] sev = Severity_ERROR -> 6
      [] sev = Severity_CRITICAL -> 8
      [] sev = Severity_EMERGENCY -> 10

RECURSIVE TotalImpact(_)
TotalImpact(issues) ==
    IF issues = EmptyBag THEN 0
    ELSE LET sev == CHOOSE s \in BagToSet(issues) : TRUE
         IN  issues[sev] * SeverityWeight(sev)
             + TotalImpact([s \in BagToSet(issues) \ {sev} |-> issues[s]])

\* Faulty variant of Floor0: the max(0, ...) left out.
Floor0_Missing(x) == x

\* health_score = max(0, 100 - (total_impact * 10))
Floor0(x) == IF x > 0 THEN x ELSE 0

HealthScore(issues) ==
    IF issues = EmptyBag THEN 100 ELSE Floor0(100 - TotalImpact(issues))

(***************************************************************************)
(* self_healing_system.py: the issues the probes raise.                    *)
(***************************************************************************)
\* continuous_health_monitoring sleeps 30 s between passes; time is counted
\* in these intervals, so the rule cooldowns of 300 s and 180 s are 10 and 6.
MonitorIntervalSeconds == 30
DefaultCooldownSeconds == 300
ChaosRecoveryWaitSeconds == 300
Ticks(seconds) == seconds \div MonitorIntervalSeconds

HealthIssue(comp, ty, sev, actions, cooldown, auto) ==
    [component |-> comp, issue_type |-> ty, severity |-> sev,
     recovery_actions |-> actions, cooldown_period |-> cooldown,
     auto_recoverable |-> auto]

\* check_api_health with rule 'api_high_response_time'
ApiHighResponseTime ==
    HealthIssue("api-server", "api_high_response_time", Severity_WARNING,
                <<"scale_up", "restart_pod">>, Ticks(300), TRUE)

\* check_api_health with rule 'api_high_error_rate'
ApiHighErrorRate ==
    HealthIssue("api-server", "api_high_error_rate", Severity_ERROR,
                <<"restart_pod", "clear_cache">>, Ticks(180), TRUE)

\* check_sensor_connectivity, offline_rate > 0.5: not auto-recoverable
SensorHighOfflineRate ==
    HealthIssue("sensor-network", "high_offline_rate", Severity_CRITICAL,
                <<"restart_service", "failover">>,
                Ticks(DefaultCooldownSeconds), FALSE)

IssueCatalog ==
    {ApiHighResponseTime, ApiHighErrorRate, SensorHighOfflineRate}

(***************************************************************************)
(* analyze_and_plan_recovery                                               *)
(***************************************************************************)
\* cooldown_key = f"{issue.component}_{issue.issue_type}"
CooldownKey(issue) == issue.component \o "_" \o issue.issue_type

\* sorted(health_issues, key=severity.value, reverse=True): stable.
SortedBySeverity(issues) ==
    LET Of(sev) == SelectSeq(issues, LAMBDA i : i.severity = sev)
    IN  Of(Severity_EMERGENCY) \o Of(Severity_CRITICAL) \o Of(Severity_ERROR)
        \o Of(Severity_WARNING) \o Of(Severity_INFO)

\* Faulty variant of NotAutoRecoverable: the auto_recoverable test left out.
NotAutoRecoverable_Unchecked(issue) == FALSE

\* "if not issue.auto_recoverable: continue"
NotAutoRecoverable(issue) == ~issue.auto_recoverable

\* Faulty variants of InCooldown: the window one interval short; no window at all.
InCooldown_OneShort(issue, cooldowns, t) ==
    /\ CooldownKey(issue) \in DOMAIN cooldowns
    /\ t - cooldowns[CooldownKey(issue)] < issue.cooldown_period - 1
InCooldown_Never(issue, cooldowns, t) == FALSE

\* "if cooldown_key in self.action_cooldowns: if now - last < cooldown: continue"
InCooldown(issue, cooldowns, t) ==
    /\ CooldownKey(issue) \in DOMAIN cooldowns
    /\ t - cooldowns[CooldownKey(issue)] < issue.cooldown_period

\* Faulty variant of ClaimCooldown: the claim is not recorded.
ClaimCooldown_Dropped(cooldowns, key, t) == cooldowns

\* "self.action_cooldowns[cooldown_key] = datetime.now()"
ClaimCooldown(cooldowns, key, t) ==
    [k \in DOMAIN cooldowns \cup {key} |-> IF k = key THEN t ELSE cooldowns[k]]

\* The loop over sorted_issues; returns the plan and the ledger it leaves.
\* No await occurs inside the loop, so one reading of the clock serves.
RECURSIVE PlanRecovery(_, _, _, _)
PlanRecovery(issues, cooldowns, plan, t) ==
    IF issues = <<>> THEN [plan |-> plan, cooldowns |-> cooldowns]
    ELSE LET issue == Head(issues) IN
         IF NotAutoRecoverable(issue)
         THEN PlanRecovery(Tail(issues), cooldowns, plan, t)
         ELSE IF InCooldown(issue, cooldowns, t)
         THEN PlanRecovery(Tail(issues), cooldowns, plan, t)
         ELSE IF issue.recovery_actions # <<>>
         THEN PlanRecovery(Tail(issues),
                           ClaimCooldown(cooldowns, CooldownKey(issue), t),
                           Append(plan, <<issue, issue.recovery_actions[1]>>), t)
         ELSE PlanRecovery(Tail(issues), cooldowns, plan, t)

analyze_and_plan_recovery(issues, cooldowns, t) ==
    PlanRecovery(SortedBySeverity(issues), cooldowns, <<>>, t)

(***************************************************************************)
(* The monitoring loop: continuous_health_monitoring                       *)
(***************************************************************************)
SeqsUpTo(S, n) == UNION {[1..k -> S] : k \in 0..n}

\* The bag of the severities of a list of issues.
RECURSIVE SeverityBag(_)
SeverityBag(issues) ==
    IF issues = <<>> THEN EmptyBag
    ELSE SeverityBag(Tail(issues)) (+) SetToBag({Head(issues).severity})

\* verify_system_recovery: issues of severity ERROR and above.
CriticalIssues(issues) ==
    SelectSeq(issues, LAMBDA i : i.severity >= Severity_ERROR)

\* perform_comprehensive_health_check: the probes' results, concatenated.
\* The planner is exercised with every list over the catalog, repeated
\* issues included.
PerformHealthCheck ==
    /\ pc = "health_check"
    /\ \E issues \in SeqsUpTo(IssueCatalog, MaxIssues) :
         health_issues' = issues
    /\ pc' = "plan"
    /\ UNCHANGED <<now, phase, recovery_plan, recovery_tasks, action_cooldowns,
                   last_dispatch, fusion_vars, status_vars, ext_vars>>

\* analyze_and_plan_recovery(health_issues) in the loop, and
\* analyze_and_plan_recovery(critical_issues) in verify_system_recovery
\* (skipped there when critical_issues is empty); "if recovery_plan:".
AnalyzeAndPlanRecovery ==
    /\ pc = "plan"
    /\ LET input == IF phase = "verify" THEN CriticalIssues(health_issues)
                    ELSE health_issues
           r == analyze_and_plan_recovery(input, action_cooldowns, now)
       IN  /\ recovery_plan' = r.plan
           /\ action_cooldowns' = r.cooldowns
           /\ pc' = IF r.plan # <<>> THEN "execute"
                    ELSE IF phase = "verify" THEN "sleep" ELSE "status"
    /\ UNCHANGED <<now, phase, health_issues, recovery_tasks, last_dispatch,
                   fusion_vars, status_vars, ext_vars>>

\* execute_recovery_plan: one task per plan entry, all created before any runs.
CreateRecoveryTasks ==
    /\ pc = "execute"
    /\ recovery_tasks' =
         [i \in 1..Len(recovery_plan) |->
            [issue |-> recovery_plan[i][1], action |-> recovery_plan[i][2],
             state |-> "in_flight"]]
    /\ last_dispatch' =
         LET keys == {CooldownKey(recovery_plan[i][1]) : i \in DOMAIN recovery_plan}
         IN  [k \in DOMAIN last_dispatch \cup keys |->
                IF k \in keys THEN now ELSE last_dispatch[k]]
    /\ pc' = "gather"
    /\ UNCHANGED <<now, phase, health_issues, recovery_plan, action_cooldowns,
                   fusion_vars, status_vars, ext_vars>>

\* A created task is in flight until execute_recovery_action returns its
\* RecoveryResult.  The actions planned here (scale_deployment, restart_pod)
\* call the blocking orchestrator client and contain no suspension point, so
\* the event loop runs the tasks to completion in the order of creation.
FinishRecoveryAction(i) ==
    /\ pc = "gather"
    /\ i \in DOMAIN recovery_tasks
    /\ recovery_tasks[i].state = "in_flight"
    /\ \A j \in 1..(i - 1) : recovery_tasks[j].state = "done"
    /\ recovery_tasks' = [recovery_tasks EXCEPT ![i].state = "done"]
    /\ UNCHANGED <<now, pc, phase, health_issues, recovery_plan,
                   action_cooldowns, last_dispatch, fusion_vars, status_vars, ext_vars>>

\* The blocking calls of a recovery action take time.
RecoveryTakesTime ==
    /\ pc = "gather"
    /\ \E i \in DOMAIN recovery_tasks : recovery_tasks[i].state = "in_flight"
    /\ now < MaxTime
    /\ now' = now + 1
    /\ UNCHANGED <<pc, phase, health_issues, recovery_plan, recovery_tasks,
                   action_cooldowns, last_dispatch, fusion_vars, status_vars, ext_vars>>

\* asyncio.gather returns once every task is done; results are processed.
GatherResults ==
    /\ pc = "gather"
    /\ \A i \in DOMAIN recovery_tasks : recovery_tasks[i].state = "done"
    /\ recovery_tasks' = <<>>
    /\ recovery_plan' = <<>>
    /\ pc' = IF phase = "verify" THEN "sleep" ELSE "status"
    /\ UNCHANGED <<now, phase, health_issues, action_cooldowns, last_dispatch,
                   fusion_vars, status_vars, ext_vars>>

\* update_system_status(health_issues) (after predictive_scaling, which
\* touches none of the variables here).
UpdateSystemStatus ==
    /\ pc = "status"
    /\ active_issues' = SeverityBag(health_issues)
    /\ health_score' = HealthScore(SeverityBag(health_issues))
    /\ pc' = "chaos"
    /\ UNCHANGED <<now, phase, health_issues, recovery_plan, recovery_tasks,
                   action_cooldowns, last_dispatch, fusion_vars, ext_vars>>

\* "if ENABLE_CHAOS_ENGINEERING and datetime.now().hour in [2, 14]":
\* chaos_engineering_test injects a fault, sleeps 300 s and calls
\* verify_system_recovery, which scans and plans again.
ChaosEngineeringTest ==
    /\ pc = "chaos"
    /\ now + Ticks(ChaosRecoveryWaitSeconds) <= MaxTime
    /\ now' = now + Ticks(ChaosRecoveryWaitSeconds)
    /\ phase' = "verify"
    /\ pc' = "health_check"
    /\ UNCHANGED <<health_issues, recovery_plan, recovery_tasks,
                   action_cooldowns, last_dispatch, fusion_vars, status_vars, ext_vars>>

\* No chaos test in this pass.
SkipChaos ==
    /\ pc = "chaos"
    /\ pc' = "sleep"
    /\ UNCHANGED <<now, phase, health_issues, recovery_plan, recovery_tasks,
                   action_cooldowns, last_dispatch, fusion_vars, status_vars, ext_vars>>

\* await asyncio.sleep(30), then the next pass.
Sleep ==
    /\ pc = "sleep"
    /\ now + 1 <= MaxTime
    /\ now' = now + 1
    /\ phase' = "cycle"
    /\ pc' = "health_check"
    /\ UNCHANGED <<health_issues, recovery_plan, recovery_tasks,
                   action_cooldowns, last_dispatch, fusion_vars, status_vars, ext_vars>>

InitLoop ==
    /\ now = 0
    /\ pc = "health_check"
    /\ phase = "cycle"
    /\ health_issues = <<>>
    /\ recovery_plan = <<>>
    /\ recovery_tasks = <<>>
    /\ action_cooldowns = <<>>
    /\ last_dispatch = <<>>

InitFusion ==
    /\ fusion_pc = "isolation_forest"
    /\ all_results = <<>>
    /\ sorted_results = <<>>

InitStatus ==
    /\ active_issues = EmptyBag
    /\ health_score = 100

(***************************************************************************)
(* backend/app/main.py: sensor readings, validation and normalisation.      *)
(***************************************************************************)
SensorIds == {"S1", "S2"}
\* raw_data.items(): the order in which one batch is walked.
SensorOrder == <<"S1", "S2">>

\* A reading is a dict: a record that has only the keys present.
CompleteReading ==
    [temperature |-> 25, humidity |-> 50, pressure |-> 1013, acceleration |-> 1]
OutOfRangeReading ==
    [temperature |-> 90, humidity |-> 50, pressure |-> 1013, acceleration |-> 1]
NoTemperatureReading ==
    [humidity |-> 50, pressure |-> 1013, acceleration |-> 1]
NoAccelerationReading ==
    [temperature |-> 25, humidity |-> 50, pressure |-> 1013]
Readings ==
    {CompleteReading, OutOfRangeReading, NoTemperatureReading,
     NoAccelerationReading}

\* data.get(field): the value, or None.
None == [none |-> TRUE, value |-> 0]
Some(v) == [none |-> FALSE, value |-> v]
Get(data, field) ==
    IF field \in DOMAIN data THEN Some(data[field]) ELSE None

\* required_fields of validate_sensor_data
RequiredFields == {"temperature", "humidity", "pressure"}

validate_sensor_data(data) == RequiredFields \subseteq DOMAIN data

Max(a, b) == IF a >= b THEN a ELSE b
Min(a, b) == IF a <= b THEN a ELSE b

\* max(lo, min(hi, value)); comparing None with a number raises TypeError.
Raised == [raised |-> TRUE, value |-> 0]
Returned(v) == [raised |-> FALSE, value |-> v]
Normalize(lo, hi, value) ==
    IF value.none THEN Raised ELSE Returned(Max(lo, Min(hi, value.value)))

normalize_temperature(value) == Normalize(-40, 85, value)
normalize_humidity(value) == Normalize(0, 100, value)
normalize_pressure(value) == Normalize(800, 1200, value)
normalize_acceleration(value) == Normalize(0, 5, value)

\* calculate_data_quality, in hundredths.
calculate_data_quality(data) ==
    LET required == {"temperature", "humidity", "pressure", "acceleration"}
        missing_fields == Cardinality(required \ DOMAIN data)
        temperature == IF "temperature" \in DOMAIN data
                       THEN data["temperature"] ELSE 0
        humidity == IF "humidity" \in DOMAIN data THEN data["humidity"] ELSE 0
        after_missing == 100 - missing_fields * 25
        after_temperature ==
            IF temperature < -40 \/ temperature > 85
            THEN after_missing - 10 ELSE after_missing
        after_humidity ==
            IF humidity < 0 \/ humidity > 100
            THEN after_temperature - 10 ELSE after_temperature
    IN  Max(0, after_humidity)

\* datetime.now() while reading number pos of iteration t is preprocessed.
Timestamp(t, pos) == t * Len(SensorOrder) + pos

\* The entry preprocess_sensor_data builds for one validated reading, or the
\* TypeError of a normalisation.
ProcessedEntry(data, t, pos) ==
    LET temperature == normalize_temperature(Get(data, "temperature"))
        humidity == normalize_humidity(Get(data, "humidity"))
        pressure == normalize_pressure(Get(data, "pressure"))
        acceleration == normalize_acceleration(Get(data, "acceleration"))
    IN  IF \/ temperature.raised \/ humidity.raised
           \/ pressure.raised \/ acceleration.raised
        THEN [raised |-> TRUE, entry |-> <<>>]
        ELSE [raised |-> FALSE,
              entry |-> [temperature |-> temperature.value,
                         humidity |-> humidity.value,
                         pressure |-> pressure.value,
                         acceleration |-> acceleration.value,
                         timestamp |-> Timestamp(t, pos),
                         quality_score |-> calculate_data_quality(data)]]
\* A dict with no entries.
NoEntries == [s \in {} |-> 0]

\* preprocess_sensor_data(raw_data) in iteration t, from position pos on: the
\* dict built from the readings that pass validate_sensor_data, or the
\* exception of the first normalisation that raises (the dict is lost).
RECURSIVE PreprocessFrom(_, _, _, _)
PreprocessFrom(raw, t, pos, processed) ==
    IF pos > Len(SensorOrder) THEN [raised |-> FALSE, data |-> processed]
    ELSE LET sensor_id == SensorOrder[pos]
         IN  IF sensor_id \notin DOMAIN raw
                \/ ~validate_sensor_data(raw[sensor_id])
             THEN PreprocessFrom(raw, t, pos + 1, processed)
             ELSE LET built == ProcessedEntry(raw[sensor_id], t, pos)
                  IN  IF built.raised
                      THEN [raised |-> TRUE, data |-> NoEntries]
                      ELSE PreprocessFrom(raw, t, pos + 1,
                               (sensor_id :> built.entry) @@ processed)

preprocess_sensor_data(raw, t) == PreprocessFrom(raw, t, 1, NoEntries)

\* The documents save_sensor_data inserts for a processed dict, in the
\* order of processed_data.items(). A document carries the sensor and the
\* timestamp of its reading; its other fields are not read by what follows.
RECURSIVE DocumentsFrom(_, _)
DocumentsFrom(processed, pos) ==
    IF pos > Len(SensorOrder) THEN <<>>
    ELSE LET sensor_id == SensorOrder[pos]
         IN  IF sensor_id \in DOMAIN processed
             THEN <<[sensor_id |-> sensor_id,
                     timestamp |-> processed[sensor_id].timestamp]>>
                      \o DocumentsFrom(processed, pos + 1)
             ELSE DocumentsFrom(processed, pos + 1)

\* collect_all_data(): nothing, or one reading of every sensor.
Batches == {NoEntries} \cup [SensorIds -> Readings]

NotSent == [sent |-> FALSE, data |-> NoEntries]

\* One iteration of data_processing_worker: collect, preprocess, save,
\* broadcast; an exception is logged and the iteration ends. The inserts of
\* save_sensor_data are taken to succeed.
DataProcessingIteration ==
    /\ tick < MaxTicks
    /\ tick' = tick + 1
    /\ \E raw \in Batches :
         LET result == preprocess_sensor_data(raw, tick + 1)
             documents == DocumentsFrom(result.data, 1)
         IN  /\ raw_data' = raw
             /\ IF raw = NoEntries
                THEN /\ processed_data' = [raised |-> FALSE, data |-> NoEntries]
                     /\ last_broadcast' = NotSent
                     /\ UNCHANGED sensor_readings
                ELSE IF result.raised
                THEN /\ processed_data' = result
                     /\ last_broadcast' = NotSent
                     /\ UNCHANGED sensor_readings
                ELSE /\ processed_data' = result
                     /\ last_broadcast' = [sent |-> TRUE, data |-> result.data]
                     /\ sensor_readings' = sensor_readings \o documents
    /\ UNCHANGED <<recent_data, sequence_data, others_backend>>

\* limit of get_recent_sensor_data
RecentLimit == 100
\* rows predict_tire_life_lstm takes at most
LstmSequenceLength == 10

\* cursor.sort("timestamp", -1): descending timestamps.
RECURSIVE InsertByTimestampDescending(_, _)
InsertByTimestampDescending(doc, sorted) ==
    IF sorted = <<>> THEN <<doc>>
    ELSE IF doc.timestamp > Head(sorted).timestamp THEN <<doc>> \o sorted
    ELSE <<Head(sorted)>> \o InsertByTimestampDescending(doc, Tail(sorted))

RECURSIVE SortByTimestampDescending(_)
SortByTimestampDescending(docs) ==
    IF docs = <<>> THEN <<>>
    ELSE InsertByTimestampDescending(Head(docs),
             SortByTimestampDescending(Tail(docs)))

\* find().sort("timestamp", -1).limit(limit)
get_recent_sensor_data(docs, limit) ==
    LET sorted == SortByTimestampDescending(docs)
    IN  SubSeq(sorted, 1, Min(limit, Len(sorted)))

\* preprocess_for_inference: one feature row per reading, in the order of
\* the list; a row is identified by the reading it was built from.
preprocess_for_inference(sensor_data) ==
    [i \in 1..Len(sensor_data) |-> sensor_data[i]]

\* predict_tire_life_lstm: processed_data[-sequence_length:]
LstmSequence(rows) ==
    LET sequence_length == Min(LstmSequenceLength, Len(rows))
    IN  SubSeq(rows, Len(rows) - sequence_length + 1, Len(rows))

\* One iteration of ai_inference_worker: get_recent_sensor_data (an empty
\* list when the query raises), then run_inference when the list is not
\* empty.
AiInferenceIteration ==
    /\ \E query_ok \in BOOLEAN :
         LET recent == IF query_ok
                       THEN get_recent_sensor_data(sensor_readings, RecentLimit)
                       ELSE <<>>
         IN  /\ recent_data' = recent
             /\ sequence_data' =
                    IF recent = <<>> THEN <<>>
                    ELSE LstmSequence(preprocess_for_inference(recent))
    /\ UNCHANGED <<tick, raw_data, processed_data, sensor_readings,
                   last_broadcast, others_backend>>

InitBackend ==
    /\ tick = 0
    /\ raw_data = NoEntries
    /\ processed_data = [raised |-> FALSE, data |-> NoEntries]
    /\ sensor_readings = <<>>
    /\ last_broadcast = NotSent
    /\ recent_data = <<>>
    /\ sequence_data = <<>>

NextBackend ==
    \/ DataProcessingIteration
    \/ AiInferenceIteration

(***************************************************************************)
(* Minimum data before a model scores: the detectors of                    *)
(* anomaly_detector.py and the engine of ai_engine.py.                     *)
(***************************************************************************)
\* "if len(device_data) < 5: continue"
IsolationForestMinRows == 5
\* lstm_params['sequence_length']
LstmParamsSequenceLength == 60

\* Faulty variant of IsolationForestScoredRows: no minimum.
IsolationForestScoredRows_NoMinimum(n) == n

\* detect_isolation_forest_anomalies: rows of a device of n readings that
\* reach decision_function.
IsolationForestScoredRows(n) ==
    IF n < IsolationForestMinRows THEN 0 ELSE n

\* detect_lstm_anomalies: number of model.predict calls for a device of n
\* readings, range(len(features_scaled) - sequence_length).
LstmPredictions(n) ==
    IF n < LstmParamsSequenceLength THEN 0
    ELSE n - LstmParamsSequenceLength

\* HankookAIEngine.detect_anomalies: rows that reach decision_function
\* ("if len(processed_data) == 0: return").
EngineScoredRows(n) == n

\* HankookAIEngine.predict_tire_life_lstm: length of the sequence given to
\* the model by run_inference, which ai_inference_worker calls only with a
\* list that is not empty.
EngineSequenceRows(n) == IF n = 0 THEN 0 ELSE Min(LstmSequenceLength, n)

ScoredBy(path, n) ==
    /\ scoring_path' = path
    /\ scoring_rows' = n
    /\ model_rows' =
          CASE path = "detect_isolation_forest_anomalies" ->
                   IsolationForestScoredRows(n)
            [] path = "detect_lstm_anomalies" -> LstmPredictions(n)
            [] path = "detect_anomalies" -> EngineScoredRows(n)
            [] path = "run_inference" -> EngineSequenceRows(n)
    /\ UNCHANGED others_coldstart

DetectIsolationForestAnomalies ==
    \E n \in 0..MaxRows : ScoredBy("detect_isolation_forest_anomalies", n)
DetectLstmAnomalies ==
    \E n \in 0..MaxRows : ScoredBy("detect_lstm_anomalies", n)
EngineDetectAnomalies ==
    \E n \in 0..MaxRows : ScoredBy("detect_anomalies", n)
EngineRunInference ==
    \E n \in 0..MaxRows : ScoredBy("run_inference", n)

InitColdStart ==
    /\ scoring_path = "none"
    /\ scoring_rows = 0
    /\ model_rows = 0

NextColdStart ==
    \/ DetectIsolationForestAnomalies
    \/ DetectLstmAnomalies
    \/ EngineDetectAnomalies
    \/ EngineRunInference

(***************************************************************************)
(* The long-running loops: the three workers startup_event creates in       *)
(* main.py and continuous_health_monitoring of the self-healing system.     *)
(***************************************************************************)
BackendWorkers ==
    {"data_processing_worker", "ai_inference_worker", "health_check_worker"}
Workers == BackendWorkers \cup {"continuous_health_monitoring"}

\* Faulty variant of AfterException: the loop gives up at the bound.
AfterException_Escalates(state, failures) ==
    IF failures >= MaxFailures THEN "returned" ELSE state

\* "except Exception as e: logger.error(...)", then the sleep and the next
\* pass of "while True": the loop goes on, whatever came before.
AfterException(state, failures) == state

\* startup_event: the engine and the device manager are initialised, then
\* the three workers are created; no handle of a task is kept.
StartupEvent ==
    /\ app_pc = "startup_event"
    /\ app_pc' = "serving"
    /\ worker_state' =
          [w \in Workers |-> IF w \in BackendWorkers THEN "running"
                             ELSE worker_state[w]]
    /\ UNCHANGED <<consecutive_failures, others_lifecycle>>

\* One pass of a loop's "while True": the body returns or raises, the
\* exception is logged, the loop sleeps.
LoopIteration(w) ==
    /\ worker_state[w] = "running"
    /\ \E raised \in BOOLEAN :
         LET failures == IF raised THEN consecutive_failures[w] + 1 ELSE 0
         IN  /\ failures <= MaxFailures
             /\ consecutive_failures' =
                    [consecutive_failures EXCEPT ![w] = failures]
             /\ worker_state' =
                    [worker_state EXCEPT
                        ![w] = IF raised THEN AfterException(@, failures)
                               ELSE @]
    /\ UNCHANGED <<app_pc, others_lifecycle>>

\* The server calls shutdown_event.
ShutdownEventBegins ==
    /\ app_pc = "serving"
    /\ app_pc' = "shutdown_event"
    /\ UNCHANGED <<worker_state, consecutive_failures, others_lifecycle>>

\* shutdown_event: ai_engine.cleanup(), iot_manager.cleanup(),
\* ws_manager.disconnect_all(), then it returns.
ShutdownEventReturns ==
    /\ app_pc = "shutdown_event"
    /\ app_pc' = "shutdown_done"
    /\ UNCHANGED <<worker_state, consecutive_failures, others_lifecycle>>

InitLifecycle ==
    /\ app_pc = "startup_event"
    /\ worker_state =
          [w \in Workers |-> IF w \in BackendWorkers THEN "not_started"
                             ELSE "running"]
    /\ consecutive_failures = [w \in Workers |-> 0]

NextLifecycle ==
    \/ StartupEvent
    \/ \E w \in Workers : LoopIteration(w)
    \/ ShutdownEventBegins
    \/ ShutdownEventReturns

(***************************************************************************)
(* self_healing_system.py: reactive scaling (scale_deployment, as a        *)
(* recovery action) and predictive_scaling in one monitoring cycle.         *)
(***************************************************************************)
\* deployments of proactive_scale_up / proactive_scale_down
ScaledDeployments == {"hankook-api", "hankook-frontend"}

\* scale_deployment: component.replace('pod-', '').split('-')[0], prefixed
\* with 'hankook-'; evaluated for the components of the catalog.
DeploymentName(component) ==
    CASE component = "api-server" -> "hankook-api"
      [] component = "sensor-network" -> "hankook-sensor"

ReactiveMaxReplicas == 10
ProactiveMaxReplicas == 5
ProactiveMinReplicas == 2
\* predicted_load > 0.8 and predicted_load < 0.3, in hundredths
ScaleUpLoad == 80
ScaleDownLoad == 30
PredictedLoads == {20, 50, 85}

\* Faulty variant of ScaleDeploymentUp: no maximum.
ScaleDeploymentUp_Unbounded(current_replicas) == current_replicas + 1

\* scale_deployment(component, scale_up=True): the new replica count.
ScaleDeploymentUp(current_replicas) ==
    Min(current_replicas + 1, ReactiveMaxReplicas)

\* proactive_scale_up / proactive_scale_down for one deployment.
ProactiveScaleUp(current_replicas) ==
    IF current_replicas < ProactiveMaxReplicas
    THEN current_replicas + 1 ELSE current_replicas
ProactiveScaleDown(current_replicas) ==
    IF current_replicas > ProactiveMinReplicas
    THEN current_replicas - 1 ELSE current_replicas

\* Faulty variant of ScalingDecision: the hour is not looked at.
ScalingDecision_LoadOnly(predicted_load, peak_hour) ==
    IF predicted_load > ScaleUpLoad THEN "up"
    ELSE IF predicted_load < ScaleDownLoad THEN "down"
    ELSE "hold"

\* Faulty variant of ScalingDecision: a scale-up needs a peak hour too.
ScalingDecision_PeakOnly(predicted_load, peak_hour) ==
    IF peak_hour THEN "up"
    ELSE IF predicted_load < ScaleDownLoad THEN "down"
    ELSE "hold"

\* predictive_scaling: the decision from the predicted load and the hour.
ScalingDecision(predicted_load, peak_hour) ==
    IF predicted_load > ScaleUpLoad \/ peak_hour THEN "up"
    ELSE IF predicted_load < ScaleDownLoad /\ ~peak_hour THEN "down"
    ELSE "hold"

\* History of one deployment: the times of its last reactive and its last
\* predictive scaling (-1: none) and the time between its last two
\* predictive scalings (0: fewer than two).
NeverScaled == [reactive |-> -1, predictive |-> -1, gap |-> 0]

\* A call of predictive_scaling that made no prediction.
NoDecision(what) ==
    [decision |-> what, predicted |-> FALSE, predicted_load |-> 0,
     peak_hour |-> FALSE]

\* The replica counts after the scale_up actions of a plan, one by one.
RECURSIVE ReplicasAfterPlan(_, _)
ReplicasAfterPlan(plan, current) ==
    IF plan = <<>> THEN current
    ELSE LET issue == Head(plan)[1]
             action == Head(plan)[2]
             name == DeploymentName(issue.component)
         IN  IF action = "scale_up" /\ name \in DOMAIN current
             THEN ReplicasAfterPlan(Tail(plan),
                      [current EXCEPT ![name] = ScaleDeploymentUp(@)])
             ELSE ReplicasAfterPlan(Tail(plan), current)

\* perform_comprehensive_health_check and analyze_and_plan_recovery: the
\* API is slow or not.
ScalingHealthCheckAndPlan ==
    /\ pc = "health_check"
    /\ \E issues \in {<<>>, <<ApiHighResponseTime>>} :
         LET planned == analyze_and_plan_recovery(issues, action_cooldowns, now)
         IN  /\ health_issues' = issues
             /\ recovery_plan' = planned.plan
             /\ action_cooldowns' = planned.cooldowns
    /\ pc' = "execute"
    /\ UNCHANGED <<now, scaling_vars, others_scaling>>

\* execute_recovery_plan ("if recovery_plan:"): scale_deployment patches
\* the deployment of each scale_up action.
ScalingExecuteRecoveryPlan ==
    /\ pc = "execute"
    /\ LET after == ReplicasAfterPlan(recovery_plan, replicas)
       IN  /\ replicas' = after
           /\ scale_history' =
                 [d \in ScaledDeployments |->
                    IF after[d] # replicas[d]
                    THEN [scale_history[d] EXCEPT !.reactive = now]
                    ELSE scale_history[d]]
    /\ pc' = "predict"
    /\ UNCHANGED <<now, health_issues, recovery_plan, action_cooldowns,
                   scaling_predictor, scaling_decision, others_scaling>>

\* predictive_scaling: trains the model when there is none and returns;
\* returns when collect_scaling_metrics gives nothing (it failed) or the
\* prediction raises (the API metrics are missing from the features);
\* otherwise predicts the load and scales every deployment proactively.
PredictiveScaling ==
    /\ pc = "predict"
    /\ IF scaling_predictor = "none"
       THEN /\ scaling_predictor' = "trained"
            /\ scaling_decision' = NoDecision("train")
            /\ UNCHANGED <<replicas, scale_history>>
       ELSE \E peak_hour \in BOOLEAN :
            \/ /\ scaling_decision' =
                     [NoDecision("no_metrics") EXCEPT !.peak_hour = peak_hour]
               /\ UNCHANGED <<replicas, scale_history, scaling_predictor>>
            \/ \E predicted_load \in PredictedLoads :
              LET decision == ScalingDecision(predicted_load, peak_hour)
                  after == [d \in ScaledDeployments |->
                              CASE decision = "up" ->
                                       ProactiveScaleUp(replicas[d])
                                [] decision = "down" ->
                                       ProactiveScaleDown(replicas[d])
                                [] OTHER -> replicas[d]]
              IN  /\ scaling_decision' =
                        [decision |-> decision, predicted |-> TRUE,
                         predicted_load |-> predicted_load,
                         peak_hour |-> peak_hour]
                  /\ replicas' = after
                  /\ scale_history' =
                        [d \in ScaledDeployments |->
                           IF after[d] # replicas[d]
                           THEN [scale_history[d] EXCEPT
                                    !.predictive = now,
                                    !.gap = IF scale_history[d].predictive = -1
                                            THEN 0
                                            ELSE now - scale_history[d].predictive]
                           ELSE scale_history[d]]
                  /\ UNCHANGED scaling_predictor
    /\ pc' = "sleep"
    /\ UNCHANGED <<now, health_issues, recovery_plan, action_cooldowns,
                   others_scaling>>

\* update_system_status and update_prometheus_metrics change nothing
\* here; then asyncio.sleep(30).
ScalingSleep ==
    /\ pc = "sleep"
    /\ now < MaxCycles
    /\ now' = now + 1
    /\ pc' = "health_check"
    /\ UNCHANGED <<health_issues, recovery_plan, action_cooldowns,
                   scaling_vars, others_scaling>>

InitScaling ==
    /\ replicas = [d \in ScaledDeployments |-> 2]
    /\ scaling_predictor = "none"
    /\ scaling_decision = NoDecision("none")
    /\ scale_history = [d \in ScaledDeployments |-> NeverScaled]

NextScaling ==
    \/ ScalingHealthCheckAndPlan
    \/ ScalingExecuteRecoveryPlan
    \/ PredictiveScaling
    \/ ScalingSleep

(***************************************************************************)
(* self_healing_system.py: the probes when the system they call is down.   *)
(***************************************************************************)
\* health_check_tasks of perform_comprehensive_health_check, in order.
Probes ==
    <<"check_api_health", "check_database_health", "check_redis_health",
      "check_mqtt_health", "check_kubernetes_pods", "check_system_resources",
      "check_sensor_connectivity">>

\* The probes that read an HTTP endpoint and test response.status == 200.
HttpProbes ==
    {"check_api_health", "check_mqtt_health", "check_sensor_connectivity"}

\* component of the issues a probe builds
ProbeComponent(probe) ==
    CASE probe = "check_api_health" -> "api-server"
      [] probe = "check_database_health" -> "database"
      [] probe = "check_redis_health" -> "redis"
      [] probe = "check_mqtt_health" -> "mqtt"
      [] probe = "check_kubernetes_pods" -> "kubernetes"
      [] probe = "check_system_resources" -> "system-resources"
      [] probe = "check_sensor_connectivity" -> "sensor-network"

\* Faulty variant of ProbeFailureIssues: every failure is a Critical issue.
ProbeFailureIssues_AlwaysCritical(probe, outcome) ==
    IF outcome = "up" THEN <<>>
    ELSE <<HealthIssue(ProbeComponent(probe), "connection_error",
                       Severity_CRITICAL, <<"restart_service">>,
                       Ticks(DefaultCooldownSeconds), TRUE)>>

\* The list a probe returns when no rule fires: its "except Exception"
\* branch when the call raises ("down"), its else branch, if any, when the
\* endpoint answers with another status than 200 ("bad_status").
ProbeFailureIssues(probe, outcome) ==
    LET issue(ty, sev, actions) ==
            <<HealthIssue(ProbeComponent(probe), ty, sev, actions,
                          Ticks(DefaultCooldownSeconds), TRUE)>>
    IN  CASE outcome = "up" -> <<>>
          [] outcome = "down" /\ probe = "check_api_health" ->
                 issue("connection_error", Severity_CRITICAL, <<"restart_pod">>)
          [] outcome = "bad_status" /\ probe = "check_api_health" ->
                 issue("api_unreachable", Severity_CRITICAL,
                       <<"restart_pod", "failover">>)
          [] outcome = "down" /\ probe \in {"check_database_health",
                                             "check_redis_health"} ->
                 issue("connection_error", Severity_CRITICAL,
                       <<"restart_service">>)
          [] outcome = "down" /\ probe = "check_mqtt_health" ->
                 issue("metrics_error", Severity_WARNING, <<"restart_service">>)
          [] OTHER -> <<>>

\* The loop over the results of gather(..., return_exceptions=True), in
\* the order of health_check_tasks: a list is added to the issues, an
\* exception is logged.
RECURSIVE ProbeResults(_, _)
ProbeResults(outcomes, i) ==
    IF i > Len(Probes) THEN <<>>
    ELSE (IF outcomes[Probes[i]] = "raises" THEN <<>>
          ELSE ProbeFailureIssues(Probes[i], outcomes[Probes[i]]))
             \o ProbeResults(outcomes, i + 1)

\* Faulty variant of perform_comprehensive_health_check: the exception of
\* one probe ends the scan in its except branch.
perform_comprehensive_health_check_Aborts(outcomes) ==
    IF \E probe \in DOMAIN outcomes : outcomes[probe] = "raises" THEN <<>>
    ELSE ProbeResults(outcomes, 1)

perform_comprehensive_health_check(outcomes) == ProbeResults(outcomes, 1)

\* perform_comprehensive_health_check while each external system is up,
\* down or answering with an error status, and each probe returns or
\* raises.
ProbeExternalSystems ==
    /\ pc = "health_check"
    /\ \E outcomes \in [{Probes[i] : i \in 1..Len(Probes)} ->
                          {"up", "down", "bad_status", "raises"}] :
         /\ \A probe \in DOMAIN outcomes :
                outcomes[probe] = "bad_status" => probe \in HttpProbes
         /\ capability' = outcomes
         /\ health_issues' = perform_comprehensive_health_check(outcomes)
    /\ pc' = "plan"
    /\ UNCHANGED others_probes

\* One pass of the monitoring loop with this scan: the plan, the recovery
\* tasks and their results.
NextProbes ==
    \/ ProbeExternalSystems
    \/ AnalyzeAndPlanRecovery
    \/ CreateRecoveryTasks
    \/ \E i \in 1..Len(Probes) : FinishRecoveryAction(i)
    \/ GatherResults

InitProbes == capability = [i \in {} |-> "up"]

(***************************************************************************)
(* Notifications: send_recovery_notification (self_healing_system.py) and  *)
(* send_anomaly_alerts (anomaly_detector.py).                              *)
(***************************************************************************)
\* check_database_health when the connection fails.
DatabaseConnectionError ==
    ProbeFailureIssues("check_database_health", "down")[1]

\* "for result in critical_results[:10]"
AlertLimit == 10

\* Faulty variant of AlertPayload: nothing is cut off.
AlertPayload_NoLimit(run) == [critical |-> run.critical, high |-> run.high]

\* send_anomaly_alerts on a list sorted by severity: the results of
\* severity HIGH and above, the first AlertLimit of them.
AlertPayload(run) ==
    LET critical == Min(run.critical, AlertLimit)
    IN  [critical |-> critical, high |-> Min(run.high, AlertLimit - critical)]

NothingAlerted == [critical |-> 0, high |-> 0]

\* How many results of one severity a run may have: none, one, as many as
\* one alert holds, and more than that.
AnomalyCounts == {0, 1, AlertLimit, MaxAnomalies}

\* os.getenv('SLACK_WEBHOOK', ''), os.getenv('ALERT_WEBHOOK', '')
LoadEnvironment ==
    /\ ~webhooks.loaded
    /\ \E slack \in BOOLEAN, alert \in BOOLEAN :
         webhooks' = [loaded |-> TRUE, slack |-> slack, alert |-> alert]
    /\ UNCHANGED <<health_issues, action_cooldowns, notifications,
                   anomaly_run, alerted, others_notify>>

\* One health scan, its plan and execute_recovery_plan: one message for
\* every RecoveryResult, success or failure, when SLACK_WEBHOOK is set.
NotifyRecoveryResults ==
    /\ webhooks.loaded
    /\ \E issues \in SeqsUpTo({ApiHighResponseTime, SensorHighOfflineRate,
                                 DatabaseConnectionError}, MaxIssues) :
         LET planned == analyze_and_plan_recovery(issues, action_cooldowns, now)
         IN  /\ health_issues' = issues
             /\ action_cooldowns' = planned.cooldowns
             /\ notifications' =
                    IF webhooks.slack
                    THEN [i \in 1..Len(planned.plan) |->
                             planned.plan[i][1].component]
                    ELSE <<>>
    /\ UNCHANGED <<webhooks, anomaly_run, alerted, others_notify>>

\* One anomaly-analysis run: the fused results, sorted by severity, are
\* given to send_anomaly_alerts.
SendAnomalyAlerts ==
    /\ webhooks.loaded
    /\ \E critical \in AnomalyCounts, high \in AnomalyCounts, other \in {0, 1} :
         LET run == [critical |-> critical, high |-> high, other |-> other]
         IN  /\ anomaly_run' = run
             /\ alerted' = IF webhooks.alert THEN AlertPayload(run)
                            ELSE NothingAlerted
    /\ UNCHANGED <<webhooks, health_issues, action_cooldowns, notifications,
                   others_notify>>

InitNotify ==
    /\ webhooks = [loaded |-> FALSE, slack |-> FALSE, alert |-> FALSE]
    /\ notifications = <<>>
    /\ anomaly_run = [critical |-> 0, high |-> 0, other |-> 0]
    /\ alerted = NothingAlerted

NextNotify ==
    \/ LoadEnvironment
    \/ NotifyRecoveryResults
    \/ SendAnomalyAlerts

(***************************************************************************)
(* Active incidents (update_system_status) and stored anomalies            *)
(* (save_anomaly_results).                                                 *)
(***************************************************************************)
\* Faulty variant of ActiveIssuesAfter: the old incidents are kept.
ActiveIssuesAfter_KeepsOld(previous, issues) == previous \o issues

\* self.system_status['active_issues'] = health_issues
ActiveIssuesAfter(previous, issues) == issues

\* One health scan followed by update_system_status.
ScanAndUpdateStatus ==
    /\ \E issues \in SeqsUpTo({ApiHighResponseTime, SensorHighOfflineRate},
                               MaxIssues) :
         /\ health_issues' = issues
         /\ status_before' = status_active
         /\ status_active' = ActiveIssuesAfter(status_active, issues)
    /\ UNCHANGED <<anomalies, last_results, runs, others_resolution>>

\* The row one INSERT of save_anomaly_results writes.
AnomalyRow(device_id, run) ==
    [device_id |-> device_id, anomaly_type |-> "temperature_anomaly",
     run |-> run, resolved |-> FALSE]

\* save_anomaly_results: one INSERT for every result, nothing else.
save_anomaly_results(table, devices, run) ==
    table
      \o (IF "D1" \in devices THEN <<AnomalyRow("D1", run)>> ELSE <<>>)
      \o (IF "D2" \in devices THEN <<AnomalyRow("D2", run)>> ELSE <<>>)

\* One analysis run: the devices found anomalous, then save_anomaly_results.
AnalysisRunAndSave ==
    /\ runs < MaxRuns
    /\ \E devices \in SUBSET DeviceIds :
         /\ last_results' = devices
         /\ anomalies' = save_anomaly_results(anomalies, devices, runs + 1)
    /\ runs' = runs + 1
    /\ UNCHANGED <<health_issues, status_active, status_before,
                   others_resolution>>

InitResolution ==
    /\ status_active = <<>>
    /\ status_before = <<>>
    /\ anomalies = <<>>
    /\ last_results = {}
    /\ runs = 0

NextResolution ==
    \/ ScanAndUpdateStatus
    \/ AnalysisRunAndSave

(***************************************************************************)
(* Recovery actions: execute_recovery_plan, execute_recovery_action and    *)
(* the actions it calls.                                                   *)
(***************************************************************************)
\* check_redis_health with rule 'redis_connection_spike'
RedisConnectionSpike ==
    HealthIssue("redis", "redis_connection_spike", Severity_ERROR,
                <<"circuit_breaker", "rebalance_load">>, Ticks(180), TRUE)

\* timedelta(minutes=5) of 'next_retry'
CircuitBreakerRetrySeconds == 300

\* RecoveryResult; the message is kept by its kind.
RecoveryResult(action, target, success, message, t) ==
    [action |-> action, target |-> target, success |-> success,
     message |-> message, timestamp |-> t]

\* The orchestrator's answer to the requests of one pass: "ok", or
\* "raises" (the client call raises an exception).
Outcomes == {"ok", "raises"}

\* Faulty variant of scale_deployment: at the maximum the action is
\* declined and reported as a failure.
scale_deployment_DeclinedAtMax(current_replicas, outcome) ==
    IF outcome = "raises"
    THEN [success |-> FALSE, message |-> "failed", replicas |-> current_replicas]
    ELSE IF current_replicas >= ReactiveMaxReplicas
    THEN [success |-> FALSE, message |-> "declined",
          replicas |-> current_replicas]
    ELSE [success |-> TRUE, message |-> "scaled",
          replicas |-> ScaleDeploymentUp(current_replicas)]

\* scale_deployment(component, scale_up=True) on a deployment that has
\* current_replicas: (success, message) and the replicas it leaves.
scale_deployment(current_replicas, outcome) ==
    IF outcome = "raises"
    THEN [success |-> FALSE, message |-> "failed", replicas |-> current_replicas]
    ELSE IF ScaleDeploymentUp(current_replicas) = current_replicas
    THEN [success |-> TRUE, message |-> "unnecessary",
          replicas |-> current_replicas]
    ELSE [success |-> TRUE, message |-> "scaled",
          replicas |-> ScaleDeploymentUp(current_replicas)]

\* activate_circuit_breaker: the entry it writes.
activate_circuit_breaker(t) ==
    [active |-> TRUE, activated_at |-> t,
     next_retry |-> t + Ticks(CircuitBreakerRetrySeconds)]

\* Faulty variant of AppendResult: only a successful result is recorded.
AppendResult_SuccessOnly(history, result) ==
    IF result.success THEN Append(history, result) ELSE history

\* execute_recovery_plan, for one result of gather: execute_recovery_action
\* returns a RecoveryResult whether its action returned or raised, and the
\* result is appended to recovery_history.
AppendResult(history, result) == Append(history, result)

\* execute_recovery_plan: the actions of the plan run one after the other
\* (the orchestrator client blocks), each gives one RecoveryResult, and the
\* results are appended to recovery_history in the order of the plan.
RECURSIVE ExecutePlan(_, _, _, _, _, _)
ExecutePlan(plan, outcomes, reps, breakers, history, t) ==
    IF plan = <<>>
    THEN [replicas |-> reps, circuit_breakers |-> breakers,
          recovery_history |-> history]
    ELSE LET issue == Head(plan)[1]
             action == Head(plan)[2]
             outcome == Head(outcomes)
         IN  IF action = "scale_up"
             THEN LET name == DeploymentName(issue.component)
                      r == scale_deployment(reps[name], outcome)
                  IN  ExecutePlan(Tail(plan), Tail(outcomes),
                          [reps EXCEPT ![name] = r.replicas], breakers,
                          AppendResult(history,
                              RecoveryResult(action, issue.component,
                                             r.success, r.message, t)), t)
             ELSE IF action = "circuit_breaker"
             THEN ExecutePlan(Tail(plan), Tail(outcomes), reps,
                      [c \in DOMAIN breakers \cup {issue.component} |->
                          IF c = issue.component
                          THEN activate_circuit_breaker(t) ELSE breakers[c]],
                      AppendResult(history,
                          RecoveryResult(action, issue.component, TRUE,
                                         "activated", t)), t)
             ELSE \* restart_pod and the other orchestrator requests
                  ExecutePlan(Tail(plan), Tail(outcomes), reps, breakers,
                      AppendResult(history,
                          RecoveryResult(action, issue.component,
                              outcome = "ok",
                              IF outcome = "ok" THEN "done" ELSE "failed",
                              t)), t)

\* The loop over the results in execute_recovery_plan: every
\* RecoveryResult it appends (those behind the first `before` records) is
\* given to send_recovery_notification with its success flag.
RecoveryNotifications(history, before) ==
    [i \in 1..(Len(history) - before) |->
        [target |-> history[before + i].target,
         success |-> history[before + i].success]]

\* perform_comprehensive_health_check: the API probe's issues come before
\* the Redis probe's.
ScanResults ==
    {<<>>, <<ApiHighResponseTime>>, <<RedisConnectionSpike>>,
     <<ApiHighResponseTime, RedisConnectionSpike>>}

\* One pass of continuous_health_monitoring: the scan, the plan, its
\* execution and the sleep of 30 s.
MonitoringPass ==
    /\ now < MaxTime
    /\ \E issues \in ScanResults, outcome \in Outcomes :
         LET planned == analyze_and_plan_recovery(issues, action_cooldowns, now)
             outcomes == [i \in 1..Len(planned.plan) |-> outcome]
             done == ExecutePlan(planned.plan, outcomes, replicas,
                                 circuit_breakers, recovery_history, now)
         IN  /\ health_issues' = issues
             /\ recovery_plan' = planned.plan
             /\ action_cooldowns' = planned.cooldowns
             /\ replicas' = done.replicas
             /\ circuit_breakers' = done.circuit_breakers
             /\ recovery_history' = done.recovery_history
             /\ notifications' =
                    RecoveryNotifications(done.recovery_history,
                                          Len(recovery_history))
    /\ now' = now + 1
    /\ UNCHANGED others_recovery

\* Replica counts an operator may set on the API deployment from outside.
OperatorReplicas == {2, ReactiveMaxReplicas - 1, ReactiveMaxReplicas}

\* The deployment is scaled from outside the self-healing system.
OperatorScalesDeployment ==
    /\ \E n \in OperatorReplicas :
         /\ replicas["hankook-api"] # n
         /\ replicas' = [replicas EXCEPT !["hankook-api"] = n]
    /\ UNCHANGED <<now, health_issues, recovery_plan, action_cooldowns,
                   notifications, recovery_vars, others_recovery>>

InitRecovery ==
    /\ recovery_history = <<>>
    /\ circuit_breakers = [c \in {} |-> 0]

NextRecovery ==
    \/ MonitoringPass
    \/ OperatorScalesDeployment

(***************************************************************************)
(* The scale requests: scale_deployment, proactive_scale_up and            *)
(* proactive_scale_down, called in any order.                              *)
(***************************************************************************)
ReactiveMinReplicas == 1

\* scale_deployment(component, scale_up=False): the new replica count.
ScaleDeploymentDown(current_replicas) ==
    Max(current_replicas - 1, ReactiveMinReplicas)

\* patch_namespaced_deployment is called when the count changes.
PatchRequests(names, before, after) ==
    SelectSeq([i \in 1..Len(names) |->
                  [name |-> names[i], from |-> before[names[i]],
                   to |-> after[names[i]]]],
              LAMBDA request : request.from # request.to)

\* scale_deployment for the API component, up or down.
ReactiveScaleRequest ==
    /\ \E scale_up \in BOOLEAN, outcome \in Outcomes :
         LET current == replicas["hankook-api"]
             new == IF scale_up
                    THEN scale_deployment(current, outcome).replicas
                    ELSE IF outcome = "raises" THEN current
                    ELSE ScaleDeploymentDown(current)
             after == [replicas EXCEPT !["hankook-api"] = new]
         IN  /\ replicas' = after
             /\ patch_requests' =
                    PatchRequests(<<"hankook-api">>, replicas, after)
    /\ UNCHANGED others_replicas

\* proactive_scale_up or proactive_scale_down over its deployments.
ProactiveScaleRequest ==
    /\ \E scale_up \in BOOLEAN :
         LET after == [d \in ScaledDeployments |->
                         IF scale_up THEN ProactiveScaleUp(replicas[d])
                         ELSE ProactiveScaleDown(replicas[d])]
         IN  /\ replicas' = after
             /\ patch_requests' =
                    PatchRequests(<<"hankook-api", "hankook-frontend">>,
                                  replicas, after)
    /\ UNCHANGED others_replicas

NextReplicas ==
    \/ ReactiveScaleRequest
    \/ ProactiveScaleRequest

(***************************************************************************)
(* Chaos tests: the end of a pass of continuous_health_monitoring,         *)
(* chaos_engineering_test and verify_system_recovery.                      *)
(***************************************************************************)
others_chaos == <<recovery_tasks, last_dispatch, fusion_vars, status_vars,
                  backend_vars, coldstart_vars, lifecycle_vars,
                  scaling_predictor, scaling_decision, scale_history,
                  capability, webhooks, anomaly_run, alerted,
                  resolution_vars, patch_requests, rest_chaos>>

\* "datetime.now().hour in [2, 14]"
ChaosHours == {2, 14}

\* The time of day at time 0, in monitoring intervals since midnight
\* (01:59:30), and the time after which no pass is started.
ClockStart == 239
ChaosHorizon == 13

\* datetime.now().hour
HourOf(t) == ((ClockStart + t) \div Ticks(3600)) % 24
DayOf(t) == (ClockStart + t) \div Ticks(86400)

\* Faulty variant of ChaosDue: no test on a day on which a verification
\* has found the system not recovered.
ChaosDue_OffAfterFailure(enabled, t) ==
    /\ enabled
    /\ HourOf(t) \in ChaosHours
    /\ \A i \in 1..Len(chaos_log) :
          DayOf(chaos_log[i].at) = DayOf(t)
              => chaos_log[i].critical_issues = <<>>

\* "if ENABLE_CHAOS_ENGINEERING and datetime.now().hour in [2, 14]"
ChaosDue(enabled, t) == enabled /\ HourOf(t) \in ChaosHours

\* What the scans of these passes find.
ChaosScanResults == {<<>>, <<ApiHighResponseTime>>, <<RedisConnectionSpike>>}

\* ENABLE_CHAOS_ENGINEERING = os.getenv(...).lower() == 'true', when the
\* module is loaded.
LoadChaosSetting ==
    /\ ~chaos_enabled.loaded
    /\ \E value \in BOOLEAN :
         chaos_enabled' = [loaded |-> TRUE, value |-> value]
    /\ UNCHANGED <<now, pc, phase, health_issues, recovery_plan,
                   action_cooldowns, replicas, notifications, recovery_vars,
                   chaos_log, others_chaos>>

\* A pass of continuous_health_monitoring up to the chaos test: the scan,
\* the plan and its execution.
ChaosCyclePass ==
    /\ chaos_enabled.loaded
    /\ pc = "health_check"
    /\ now < ChaosHorizon
    /\ \E issues \in ChaosScanResults, outcome \in Outcomes :
         LET planned == analyze_and_plan_recovery(issues, action_cooldowns, now)
             outcomes == [i \in 1..Len(planned.plan) |-> outcome]
             done == ExecutePlan(planned.plan, outcomes, replicas,
                                 circuit_breakers, recovery_history, now)
         IN  /\ health_issues' = issues
             /\ recovery_plan' = planned.plan
             /\ action_cooldowns' = planned.cooldowns
             /\ replicas' = done.replicas
             /\ circuit_breakers' = done.circuit_breakers
             /\ recovery_history' = done.recovery_history
             /\ notifications' =
                    RecoveryNotifications(done.recovery_history,
                                          Len(recovery_history))
    /\ phase' = "cycle"
    /\ pc' = "chaos"
    /\ UNCHANGED <<now, chaos_vars, others_chaos>>

\* chaos_engineering_test: the injection, the sleep of 300 s, and
\* verify_system_recovery: a scan, and a plan for the issues of severity
\* ERROR and above, executed when it is not empty; then the sleep of 30 s
\* of the pass.
ChaosTestAndVerify ==
    /\ pc = "chaos"
    /\ ChaosDue(chaos_enabled.value, now)
    /\ \E issues \in ChaosScanResults, outcome \in Outcomes :
         LET t == now + Ticks(ChaosRecoveryWaitSeconds)
             critical_issues == CriticalIssues(issues)
             planned == IF critical_issues = <<>>
                        THEN [plan |-> <<>>, cooldowns |-> action_cooldowns]
                        ELSE analyze_and_plan_recovery(critical_issues,
                                                       action_cooldowns, t)
             outcomes == [i \in 1..Len(planned.plan) |-> outcome]
             done == ExecutePlan(planned.plan, outcomes, replicas,
                                 circuit_breakers, recovery_history, t)
         IN  /\ health_issues' = issues
             /\ recovery_plan' = planned.plan
             /\ action_cooldowns' = planned.cooldowns
             /\ replicas' = done.replicas
             /\ circuit_breakers' = done.circuit_breakers
             /\ recovery_history' = done.recovery_history
             /\ notifications' =
                    RecoveryNotifications(done.recovery_history,
                                          Len(recovery_history))
             /\ chaos_log' =
                    Append(chaos_log,
                           [at |-> now, verified_at |-> t,
                            critical_issues |-> critical_issues])
             /\ now' = t + 1
    /\ phase' = "verify"
    /\ pc' = "health_check"
    /\ UNCHANGED <<chaos_enabled, others_chaos>>

\* No chaos test in this pass: the sleep of 30 s.
ChaosNotDue ==
    /\ pc = "chaos"
    /\ ~ChaosDue(chaos_enabled.value, now)
    /\ now' = now + 1
    /\ pc' = "health_check"
    /\ UNCHANGED <<phase, health_issues, recovery_plan, action_cooldowns,
                   replicas, notifications, recovery_vars, chaos_vars,
                   others_chaos>>

InitChaos ==
    /\ chaos_enabled = [loaded |-> FALSE, value |-> FALSE]
    /\ chaos_log = <<>>

NextChaos ==
    \/ LoadChaosSetting
    \/ ChaosCyclePass
    \/ ChaosTestAndVerify
    \/ ChaosNotDue

(***************************************************************************)
(* main.py: calculate_data_quality on any raw reading.                     *)
(***************************************************************************)
\* Values of a channel below, inside and above the range its normaliser
\* clips to.
ChannelValues ==
    [temperature |-> {-50, 25, 90}, humidity |-> {-5, 50, 120},
     pressure |-> {700, 1013, 1300}, acceleration |-> {-1, 1, 7}]

\* The raw readings: any of the four channels may be absent.
RawReadings ==
    UNION {{r \in [present -> UNION {ChannelValues[f] : f \in present}] :
               \A f \in present : r[f] \in ChannelValues[f]} :
           present \in SUBSET DOMAIN ChannelValues}

\* calculate_data_quality(data) for a raw reading.
ScoreReading ==
    /\ \E data \in RawReadings :
         quality_call' = [called |-> TRUE, data |-> data,
                          quality_score |-> calculate_data_quality(data)]
    /\ UNCHANGED <<settled_vars, rest_quality>>

InitQuality ==
    quality_call = [called |-> FALSE, data |-> <<>>, quality_score |-> 0]

(***************************************************************************)
(* The rule-based probes: _load_recovery_rules and the loop over the rules *)
(* in check_api_health, check_database_health, check_redis_health,         *)
(* check_mqtt_health and check_system_resources.                           *)
(***************************************************************************)
Rule(name, words, metric, above, actions, severity, cooldown) ==
    [name |-> name, words |-> words, metric |-> metric, above |-> above,
     actions |-> actions, severity |-> severity, cooldown |-> cooldown]

\* self.recovery_rules, in the order of the dict.  `words` are the parts of
\* the rule's name between underscores; error_rate is in hundredths.
RecoveryRules ==
    <<Rule("api_high_response_time", <<"api", "high", "response", "time">>,
           "avg_response_time", 2000, <<"scale_up", "restart_pod">>,
           Severity_WARNING, 300),
      Rule("api_high_error_rate", <<"api", "high", "error", "rate">>,
           "error_rate", 5, <<"restart_pod", "clear_cache">>,
           Severity_ERROR, 180),
      Rule("api_pod_crash_loop", <<"api", "pod", "crash", "loop">>,
           "restart_count", 5, <<"scale_up", "update_config">>,
           Severity_CRITICAL, 600),
      Rule("database_high_connections", <<"database", "high", "connections">>,
           "active_connections", 180, <<"restart_service", "clear_cache">>,
           Severity_WARNING, 300),
      Rule("database_deadlocks", <<"database", "deadlocks">>,
           "deadlocks_per_minute", 5, <<"restart_service">>,
           Severity_ERROR, 600),
      Rule("database_disk_space", <<"database", "disk", "space">>,
           "disk_usage_percent", 85, <<"cleanup_resources", "rotate_logs">>,
           Severity_CRITICAL, 900),
      Rule("redis_memory_high", <<"redis", "memory", "high">>,
           "memory_usage_percent", 90, <<"clear_cache", "restart_service">>,
           Severity_WARNING, 300),
      Rule("redis_connection_spike", <<"redis", "connection", "spike">>,
           "connected_clients", 1000, <<"circuit_breaker", "rebalance_load">>,
           Severity_ERROR, 180),
      Rule("mqtt_connection_drop", <<"mqtt", "connection", "drop">>,
           "client_disconnect_rate", 50, <<"restart_service", "failover">>,
           Severity_ERROR, 300),
      Rule("high_cpu_usage", <<"high", "cpu", "usage">>,
           "cpu_usage_percent", 80, <<"scale_up">>, Severity_WARNING, 600),
      Rule("high_memory_usage", <<"high", "memory", "usage">>,
           "memory_usage_percent", 85, <<"cleanup_resources", "scale_up">>,
           Severity_WARNING, 600),
      Rule("disk_space_critical", <<"disk", "space", "critical">>,
           "disk_usage_percent", 95, <<"cleanup_resources", "rotate_logs">>,
           Severity_CRITICAL, 300)>>

\* "keyword in rule_name": on these names a keyword is a substring of the
\* name exactly when it is one of its words.
KeywordIn(keyword, rule) ==
    \E i \in 1..Len(rule.words) : rule.words[i] = keyword

\* The keywords a probe looks for in the names of the rules.
ProbeKeywords(probe) ==
    CASE probe = "check_api_health" -> {"api"}
      [] probe = "check_database_health" -> {"database"}
      [] probe = "check_redis_health" -> {"redis"}
      [] probe = "check_mqtt_health" -> {"mqtt"}
      [] probe = "check_system_resources" -> {"cpu", "memory", "disk"}

RuleProbes ==
    {"check_api_health", "check_database_health", "check_redis_health",
     "check_mqtt_health", "check_system_resources"}

\* The metrics dict each probe builds, over values below, at and above the
\* thresholds of the rules; check_database_health sets disk_usage_percent
\* to 70.
ProbeMetrics(probe) ==
    CASE probe = "check_api_health" ->
             [avg_response_time : {100, 2000, 3000}, error_rate : {1, 5, 10},
              restart_count : {0, 5, 6}]
      [] probe = "check_database_health" ->
             [active_connections : {10, 180, 200},
              deadlocks_per_minute : {0, 5, 10}, slow_queries : {0},
              disk_usage_percent : {70}]
      [] probe = "check_redis_health" ->
             [memory_usage_percent : {50, 88, 90, 95},
              connected_clients : {10, 1000, 2000}]
      [] probe = "check_mqtt_health" ->
             [client_disconnect_rate : {0, 50, 60}]
      [] probe = "check_system_resources" ->
             [cpu_usage_percent : {10, 80, 81, 100},
              memory_usage_percent : {50, 88, 90, 95},
              disk_usage_percent : {50, 90, 95, 97}]

\* rule['condition'](metrics): metrics.get(key, 0) > threshold
RuleCondition(rule, metrics) ==
    (IF rule.metric \in DOMAIN metrics THEN metrics[rule.metric] ELSE 0)
        > rule.above

\* "for rule_name, rule in self.recovery_rules.items(): if <keyword> in
\* rule_name and rule['condition'](metrics): issues.append(HealthIssue(...))"
RECURSIVE RuleIssuesFrom(_, _, _)
RuleIssuesFrom(probe, metrics, i) ==
    IF i > Len(RecoveryRules) THEN <<>>
    ELSE LET rule == RecoveryRules[i]
         IN  (IF /\ \E keyword \in ProbeKeywords(probe) :
                        KeywordIn(keyword, rule)
                 /\ RuleCondition(rule, metrics)
              THEN <<HealthIssue(ProbeComponent(probe), rule.name,
                                 rule.severity, rule.actions,
                                 Ticks(rule.cooldown), TRUE)>>
              ELSE <<>>)
             \o RuleIssuesFrom(probe, metrics, i + 1)

\* A rule-based probe whose calls succeed.
CheckByRules(probe) ==
    /\ \E metrics \in ProbeMetrics(probe) :
         rule_scan' = [probe |-> probe, metrics |-> metrics,
                       issues |-> RuleIssuesFrom(probe, metrics, 1)]
    /\ UNCHANGED <<settled_vars, rest_rules>>

InitRules == rule_scan = [probe |-> "none", metrics |-> <<>>, issues |-> <<>>]

NextRules == \E probe \in RuleProbes : CheckByRules(probe)

(***************************************************************************)
(* restart_pod and scale_deployment: the deployment a component names.     *)
(* A name is kept as the list of its parts between hyphens.                *)
(***************************************************************************)
RECURSIVE JoinParts(_)
JoinParts(parts) ==
    IF parts = <<>> THEN ""
    ELSE IF Len(parts) = 1 THEN parts[1]
    ELSE parts[1] \o "-" \o JoinParts(Tail(parts))

\* The deployments of the namespace and the hashes in the names of their
\* pods (<deployment>-<replica set>-<pod>).
PlatformDeployments ==
    {<<"hankook", "api">>, <<"hankook", "frontend">>, <<"hankook", "mqtt">>,
     <<"hankook", "sensor", "gateway">>, <<"hankook", "ai">>}
ReplicaSetHashes == {"7d9f", "5c8b"}
PodHashes == {"abc", "xk2", "q7z"}

\* check_kubernetes_pods: component = f"pod-{pod.metadata.name}"
PodComponents ==
    {<<"pod">> \o d \o <<rs, pod>> :
        d \in PlatformDeployments, rs \in ReplicaSetHashes, pod \in PodHashes}

\* The components of the other probes' issues.
ServiceComponents ==
    {<<"api", "server">>, <<"sensor", "network">>, <<"database">>,
     <<"system", "resources">>}

\* component.replace('pod-', ''): no part of these names ends in "pod" but
\* the part "pod" itself, which goes with its hyphen when a part follows.
RECURSIVE ReplacePod(_)
ReplacePod(parts) ==
    IF Len(parts) <= 1 THEN parts
    ELSE IF Head(parts) = "pod" THEN ReplacePod(Tail(parts))
    ELSE <<Head(parts)>> \o ReplacePod(Tail(parts))

\* deployment_name = component.replace('pod-', '').split('-')[0]; a part
\* holds no hyphen, so it never starts with 'hankook-' and the prefix is
\* always put in front.
deployment_name(component) ==
    <<"hankook", Head(ReplacePod(component))>>

TargetActions == {"restart_pod", "scale_up", "scale_down"}

\* restart_pod(component) or scale_deployment(component, scale_up): the
\* request names the deployment; the orchestrator refuses a name it does
\* not know and the except branch returns the failure.
ResolveTarget ==
    /\ \E component \in PodComponents \cup ServiceComponents,
          action \in TargetActions :
         LET name == deployment_name(component)
             call == [action |-> action, component |-> component,
                      deployment |-> JoinParts(name),
                      success |-> name \in PlatformDeployments]
         IN  target_calls' =
                 IF target_calls = <<>> THEN <<call>>
                 ELSE <<target_calls[Len(target_calls)], call>>
    /\ UNCHANGED <<settled_vars, rest_target>>

InitTarget == target_calls = <<>>

(***************************************************************************)
(* api_optimizer.py: RateLimiter.is_allowed on one key.                    *)
(***************************************************************************)
\* limit and window (seconds) of the calls, the number of calls and the
\* seconds observed.
LimiterLimit == 2
LimiterWindow == 3
MaxLimiterCalls == 4
MaxLimiterClock == 4

\* A key that does not exist.
NoKey == [members |-> {}, expires_at |-> -1]

\* The key as a command finds it: Redis has deleted it once its expiry
\* has come.
LiveKey(key, t) ==
    IF key.expires_at >= 0 /\ t >= key.expires_at THEN NoKey ELSE key

\* The pipeline of is_allowed on the sorted set: zremrangebyscore(key, 0,
\* window_start), zcard(key), zadd(key, {str(current_time): current_time}),
\* expire(key, window).  A member is the text of a time, so a set of times
\* stands for the sorted set.
LimiterPipeline(key, current_time, window) ==
    LET window_start == current_time - window
        kept == {m \in LiveKey(key, current_time).members : m > window_start}
    IN  [zcard |-> Cardinality(kept),
         key |-> [members |-> kept \cup {current_time},
                  expires_at |-> current_time + window]]

\* is_allowed(key, limit, window): the pipeline runs, or Redis fails and
\* the except branch answers True.
IsAllowed ==
    /\ Len(limiter_calls) < MaxLimiterCalls
    /\ \E outcome \in Outcomes :
         IF outcome = "ok"
         THEN LET r == LimiterPipeline(limiter_key, limiter_clock,
                                       LimiterWindow)
              IN  /\ limiter_key' = r.key
                  /\ limiter_calls' =
                         Append(limiter_calls,
                                [at |-> limiter_clock, raised |-> FALSE,
                                 allowed |-> r.zcard < LimiterLimit])
         ELSE /\ limiter_key' = limiter_key
              /\ limiter_calls' =
                     Append(limiter_calls,
                            [at |-> limiter_clock, raised |-> TRUE,
                             allowed |-> TRUE])
    /\ UNCHANGED <<limiter_clock, settled_vars, rest_limiter>>

\* A second passes.
LimiterSecondPasses ==
    /\ limiter_clock < MaxLimiterClock
    /\ limiter_clock' = limiter_clock + 1
    /\ UNCHANGED <<limiter_key, limiter_calls, settled_vars, rest_limiter>>

InitLimiter ==
    /\ limiter_clock = 0
    /\ limiter_key = NoKey
    /\ limiter_calls = <<>>

NextLimiter ==
    \/ IsAllowed
    \/ LimiterSecondPasses

(***************************************************************************)
(* oauth2_server.py and firewall_rules.py: check_rate_limit on one         *)
(* identifier.  The Redis client is synchronous, so the calls of one       *)
(* process follow one another; the store expires the key on its own.       *)
(***************************************************************************)
\* limit and window (seconds) of the calls, the number of calls and the
\* seconds observed.
RateLimit == 2
RateWindow == 2
MaxRateCalls == 5
MaxStoreClock == 5

\* A key that does not exist; expires_at = -1 is a key without expiry.
NoCounter == [exists |-> FALSE, value |-> 0, created_at |-> -1,
              expires_at |-> -1]

\* The key as a command finds it.
LiveCounter(key, t) ==
    IF key.exists /\ key.expires_at >= 0 /\ t >= key.expires_at
    THEN NoCounter ELSE key

\* setex(key, window, 1)
Setex(t, window) ==
    [exists |-> TRUE, value |-> 1, created_at |-> t, expires_at |-> t + window]

\* incr(key): one more on a key that exists, its expiry untouched; a key
\* that does not exist is created with value 1 and no expiry.
Incr(key, t) ==
    LET live == LiveCounter(key, t)
    IN  IF live.exists THEN [live EXCEPT !.value = @ + 1]
        ELSE [exists |-> TRUE, value |-> 1, created_at |-> t,
              expires_at |-> -1]

\* check_rate_limit, first command: current = self.redis_client.get(key),
\* or the command raises and the except branch returns True.
RateLimitGet ==
    /\ rate_call.pc = "idle"
    /\ Len(rate_answers) < MaxRateCalls
    /\ \E outcome \in Outcomes :
         IF outcome = "ok"
         THEN /\ rate_call' =
                    LET live == LiveCounter(counter_key, store_clock)
                    IN  [pc |-> "read", at |-> store_clock,
                         none |-> ~live.exists, current |-> live.value]
              /\ rate_answers' = rate_answers
         ELSE /\ rate_call' = rate_call
              /\ rate_answers' =
                     Append(rate_answers,
                            [at |-> store_clock, done_at |-> store_clock,
                             raised |-> TRUE, allowed |-> TRUE,
                             window_start |-> -1])
    /\ UNCHANGED <<store_clock, counter_key, settled_vars, rest_store>>

\* check_rate_limit, after the get: setex, incr or the refusal.
RateLimitDecide ==
    /\ rate_call.pc = "read"
    /\ LET after == IF rate_call.none THEN Setex(store_clock, RateWindow)
                    ELSE IF rate_call.current < RateLimit
                    THEN Incr(counter_key, store_clock)
                    ELSE counter_key
           allowed == rate_call.none \/ rate_call.current < RateLimit
       IN  /\ counter_key' = after
           /\ rate_answers' =
                  Append(rate_answers,
                         [at |-> rate_call.at, done_at |-> store_clock,
                          raised |-> FALSE, allowed |-> allowed,
                          window_start |-> IF allowed THEN after.created_at
                                           ELSE -1])
    /\ rate_call' = [pc |-> "idle", at |-> 0, none |-> TRUE, current |-> 0]
    /\ UNCHANGED <<store_clock, settled_vars, rest_store>>

\* A second passes, between two calls or between the commands of one.
StoreSecondPasses ==
    /\ store_clock < MaxStoreClock
    /\ store_clock' = store_clock + 1
    /\ UNCHANGED <<counter_key, rate_call, rate_answers, settled_vars,
                   rest_store>>

InitStore ==
    /\ store_clock = 0
    /\ counter_key = NoCounter
    /\ rate_call = [pc |-> "idle", at |-> 0, none |-> TRUE, current |-> 0]
    /\ rate_answers = <<>>

NextStore ==
    \/ RateLimitGet
    \/ RateLimitDecide
    \/ StoreSecondPasses

(***************************************************************************)
(* api_optimizer.py: CacheManager.get, set and delete.                     *)
(***************************************************************************)
\* The size the memory cache is cut back to (1000 in the source, scaled
\* down), the seconds observed and the longest ttl.
MemoryCacheLimit == 2
MaxCacheClock == 2
MaxTtl == 2

\* One key more than the memory cache keeps.
CacheKeys == 1..(MemoryCacheLimit + 1)
CacheStrategies == {"memory_cache", "redis_cache", "hybrid_cache"}
MemoryStrategies == {"memory_cache", "hybrid_cache"}
RedisStrategies == {"redis_cache", "hybrid_cache"}

\* Position of a key in the memory cache, 0 when it is absent.
CacheIndex(cache, key) ==
    IF \E i \in 1..Len(cache) : cache[i].key = key
    THEN CHOOSE i \in 1..Len(cache) : cache[i].key = key
    ELSE 0

\* self.memory_cache[key] = {...}: a key already there keeps its place.
CachePut(cache, key, expires_at) ==
    LET i == CacheIndex(cache, key)
        entry == [key |-> key, expires_at |-> expires_at]
    IN  IF i = 0 THEN Append(cache, entry) ELSE [cache EXCEPT ![i] = entry]

\* del self.memory_cache[key]
CacheDel(cache, key) == SelectSeq(cache, LAMBDA e : e.key # key)

\* min(self.memory_cache.keys(), key=expires_at): the first key, in the
\* order of the dict, with the least expiry.
OldestKey(cache) ==
    LET i == CHOOSE i \in 1..Len(cache) :
                 /\ \A j \in 1..Len(cache) :
                       cache[i].expires_at <= cache[j].expires_at
                 /\ \A j \in 1..(i - 1) :
                       cache[j].expires_at > cache[i].expires_at
    IN  cache[i].key

\* set, memory part: the entry is stored, then one entry is removed when
\* the cache holds more than the limit.
MemoryCacheAfterSet(cache, key, expires_at) ==
    LET stored == CachePut(cache, key, expires_at)
    IN  IF Len(stored) > MemoryCacheLimit
        THEN CacheDel(stored, OldestKey(stored)) ELSE stored

\* The key in Redis as a command finds it: gone once its expiry has come.
RedisHas(key, t) == redis_cache[key] > t

\* Redis drops the keys whose expiry has come.
RedisExpire(redis, t) ==
    [key \in CacheKeys |-> IF redis[key] > t THEN redis[key] ELSE 0]

\* CacheManager.set(key, value, ttl, strategy)
CacheSet ==
    /\ \E key \in CacheKeys, ttl \in 1..MaxTtl,
          strategy \in CacheStrategies :
         /\ memory_cache' =
                IF strategy \in MemoryStrategies
                THEN MemoryCacheAfterSet(memory_cache, key, cache_clock + ttl)
                ELSE memory_cache
         /\ redis_cache' =
                IF strategy \in RedisStrategies
                THEN [redis_cache EXCEPT ![key] = cache_clock + ttl]
                ELSE redis_cache
    /\ UNCHANGED <<cache_clock, cache_get, settled_vars, rest_cache>>

\* CacheManager.get(key, strategy): the memory cache first, then Redis.
CacheGet ==
    /\ \E key \in CacheKeys, strategy \in CacheStrategies :
         LET i == CacheIndex(memory_cache, key)
         IN  cache_get' =
                 IF strategy \in MemoryStrategies /\ i # 0
                 THEN [called |-> TRUE, at |-> cache_clock, found |-> TRUE,
                       from |-> "memory",
                       expires_at |-> memory_cache[i].expires_at]
                 ELSE IF strategy \in RedisStrategies
                         /\ RedisHas(key, cache_clock)
                 THEN [called |-> TRUE, at |-> cache_clock, found |-> TRUE,
                       from |-> "redis", expires_at |-> redis_cache[key]]
                 ELSE [called |-> TRUE, at |-> cache_clock, found |-> FALSE,
                       from |-> "none", expires_at |-> 0]
    /\ UNCHANGED <<cache_clock, memory_cache, redis_cache, settled_vars,
                   rest_cache>>

\* CacheManager.delete(key, strategy)
CacheDelete ==
    /\ \E key \in CacheKeys, strategy \in CacheStrategies :
         /\ memory_cache' =
                IF strategy \in MemoryStrategies
                THEN CacheDel(memory_cache, key) ELSE memory_cache
         /\ redis_cache' =
                IF strategy \in RedisStrategies
                THEN [redis_cache EXCEPT ![key] = 0] ELSE redis_cache
    /\ UNCHANGED <<cache_clock, cache_get, settled_vars, rest_cache>>

\* A second passes.
CacheSecondPasses ==
    /\ cache_clock < MaxCacheClock
    /\ cache_clock' = cache_clock + 1
    /\ redis_cache' = RedisExpire(redis_cache, cache_clock + 1)
    /\ UNCHANGED <<memory_cache, cache_get, settled_vars, rest_cache>>

InitCache ==
    /\ cache_clock = 0
    /\ memory_cache = <<>>
    /\ redis_cache = [key \in CacheKeys |-> 0]
    /\ cache_get = [called |-> FALSE, at |-> 0, found |-> FALSE,
                    from |-> "none", expires_at |-> 0]

NextCache ==
    \/ CacheSet
    \/ CacheGet
    \/ CacheDelete
    \/ CacheSecondPasses

(***************************************************************************)
(* health-check.py: HealthChecker.check_sensor_connectivity and            *)
(* get_overall_status.                                                     *)
(***************************************************************************)
\* The largest fleet reported by /sensors/status.
MaxSensors == 10

HealthStatuses == {"healthy", "warning", "critical", "unknown"}
StatusResponses == {"200", "500", "raises"}

\* The if/elif chain of check_sensor_connectivity on a 200 response, in the
\* order of the source; offline / max(total, 1) > 0.2 is
\* 5 * offline > total for total > 0, and > 0.5 is 2 * offline > total.
SensorConnectivityStatus(total_sensors, offline_sensors) ==
    IF total_sensors = 0 THEN "warning"
    ELSE IF 5 * offline_sensors > total_sensors THEN "warning"
    ELSE IF 2 * offline_sensors > total_sensors THEN "critical"
    ELSE "healthy"

\* check_sensor_connectivity: GET /sensors/status and the result built
\* from it.
CheckSensorConnectivity ==
    /\ \E response \in StatusResponses, total_sensors \in 0..MaxSensors :
         \E offline_sensors \in 0..total_sensors :
            fleet_result' =
                IF response = "200"
                THEN [checked |-> TRUE, response |-> response,
                      total_sensors |-> total_sensors,
                      offline_sensors |-> offline_sensors,
                      status |-> SensorConnectivityStatus(total_sensors,
                                                          offline_sensors)]
                ELSE [checked |-> TRUE, response |-> response,
                      total_sensors |-> 0, offline_sensors |-> 0,
                      status |-> "critical"]
    /\ UNCHANGED <<fleet_overall, settled_vars, rest_fleet>>

\* get_overall_status over self.results: the sensor result and the
\* statuses of the other components.
OverallStatus(statuses) ==
    IF statuses = {} THEN "unknown"
    ELSE IF "critical" \in statuses THEN "critical"
    ELSE IF "warning" \in statuses THEN "warning"
    ELSE "healthy"

GetOverallStatus ==
    /\ fleet_result.checked
    /\ \E others \in SUBSET {"healthy", "warning", "critical"} :
         fleet_overall' =
             [asked |-> TRUE, others |-> others,
              sensors |-> fleet_result.status,
              status |-> OverallStatus(others \cup {fleet_result.status})]
    /\ UNCHANGED <<fleet_result, settled_vars, rest_fleet>>

InitFleet ==
    /\ fleet_result = [checked |-> FALSE, response |-> "200",
                       total_sensors |-> 0, offline_sensors |-> 0,
                       status |-> "unknown"]
    /\ fleet_overall = [asked |-> FALSE, others |-> {},
                        sensors |-> "unknown", status |-> "unknown"]

NextFleet ==
    \/ CheckSensorConnectivity
    \/ GetOverallStatus

Init ==
    /\ InitLoop /\ InitFusion /\ InitStatus
    /\ InitBackend /\ InitColdStart /\ InitLifecycle /\ InitScaling
    /\ InitProbes /\ InitNotify /\ InitResolution /\ InitRecovery
    /\ patch_requests = <<>>
    /\ InitChaos
    /\ InitQuality
    /\ InitRules
    /\ InitTarget
    /\ InitLimiter
    /\ InitStore
    /\ InitCache
    /\ InitFleet

Next ==
    \/ PerformHealthCheck
    \/ AnalyzeAndPlanRecovery
    \/ CreateRecoveryTasks
    \/ \E i \in 1..MaxIssues : FinishRecoveryAction(i)
    \/ RecoveryTakesTime
    \/ GatherResults
    \/ UpdateSystemStatus
    \/ ChaosEngineeringTest
    \/ SkipChaos
    \/ Sleep

Spec == Init /\ [][Next]_vars

SpecChaos == Init /\ [][NextChaos]_vars

SpecQuality == Init /\ [][ScoreReading]_vars

SpecRules == Init /\ [][NextRules]_vars

SpecTarget == Init /\ [][ResolveTarget]_vars

SpecLimiter == Init /\ [][NextLimiter]_vars

SpecStore == Init /\ [][NextStore]_vars

SpecCache == Init /\ [][NextCache]_vars

SpecFleet == Init /\ [][NextFleet]_vars

(***************************************************************************)
(* run_comprehensive_analysis: the detectors' lists are concatenated in    *)
(* the order of detection_tasks (isolation forest, then LSTM), then fused.  *)
(***************************************************************************)
\* all_results.extend(results) for detect_isolation_forest_anomalies
ExtendIsolationForest ==
    /\ fusion_pc = "isolation_forest"
    /\ Len(all_results) < MaxResults
    /\ \E r \in IsolationForestResults : all_results' = Append(all_results, r)
    /\ UNCHANGED <<fusion_pc, sorted_results, loop_vars, status_vars, ext_vars>>

NextDetector ==
    /\ fusion_pc = "isolation_forest"
    /\ fusion_pc' = "lstm"
    /\ UNCHANGED <<all_results, sorted_results, loop_vars, status_vars, ext_vars>>

\* all_results.extend(results) for detect_lstm_anomalies
ExtendLstm ==
    /\ fusion_pc = "lstm"
    /\ Len(all_results) < MaxResults
    /\ \E r \in LstmResults : all_results' = Append(all_results, r)
    /\ UNCHANGED <<fusion_pc, sorted_results, loop_vars, status_vars, ext_vars>>

\* all_results = self.deduplicate_and_prioritize(all_results)
DeduplicateAndPrioritize ==
    /\ fusion_pc = "lstm"
    /\ sorted_results' = deduplicate_and_prioritize(all_results)
    /\ fusion_pc' = "done"
    /\ UNCHANGED <<all_results, loop_vars, status_vars, ext_vars>>

NextFusion ==
    \/ ExtendIsolationForest
    \/ NextDetector
    \/ ExtendLstm
    \/ DeduplicateAndPrioritize

SpecFusion == Init /\ [][NextFusion]_vars

(***************************************************************************)
(* update_system_status called with successive active-incident lists.      *)
(***************************************************************************)
\* The next scan reports one more incident of severity sev.
StatusWithOneMore(sev) ==
    /\ BagCardinality(active_issues) < MaxActiveIssues
    /\ active_issues' = active_issues (+) SetToBag({sev})
    /\ health_score' = HealthScore(active_issues (+) SetToBag({sev}))
    /\ UNCHANGED <<loop_vars, fusion_vars, ext_vars>>

\* The next scan no longer reports one incident of severity sev.
StatusWithOneLess(sev) ==
    /\ BagIn(sev, active_issues)
    /\ active_issues' = active_issues (-) SetToBag({sev})
    /\ health_score' = HealthScore(active_issues (-) SetToBag({sev}))
    /\ UNCHANGED <<loop_vars, fusion_vars, ext_vars>>

NextHealth ==
    \/ \E sev \in Severities : StatusWithOneMore(sev)
    \/ \E sev \in Severities : StatusWithOneLess(sev)

SpecHealth == Init /\ [][NextHealth]_vars

(***************************************************************************)
(* backend/app/main.py: data_processing_worker and ai_inference_worker      *)
(* running side by side after startup_event.                               *)
(***************************************************************************)
SpecBackend == Init /\ [][NextBackend]_vars

(***************************************************************************)
(* The scorers called with the readings of one device.                     *)
(***************************************************************************)
SpecColdStart == Init /\ [][NextColdStart]_vars

(***************************************************************************)
(* The loops from startup to the return of shutdown_event.                 *)
(***************************************************************************)
SpecLifecycle == Init /\ [][NextLifecycle]_vars

\* The event loop resumes every loop whose asyncio.sleep has elapsed.
SpecLifecycleFair ==
    SpecLifecycle /\ \A w \in Workers : WF_vars(LoopIteration(w))

(***************************************************************************)
(* The monitoring cycle with its two scalers.                              *)
(***************************************************************************)
SpecScaling == Init /\ [][NextScaling]_vars

(***************************************************************************)
(* Health scans against external systems that may be down.                 *)
(***************************************************************************)
SpecProbes == Init /\ [][NextProbes]_vars

(***************************************************************************)
(* Health scans and anomaly runs with their notifications.                 *)
(***************************************************************************)
SpecNotify == Init /\ [][NextNotify]_vars

(***************************************************************************)
(* Successive health scans and analysis runs.                              *)
(***************************************************************************)
SpecResolution == Init /\ [][NextResolution]_vars

(***************************************************************************)
(* Monitoring passes with the outcomes of their recovery actions.          *)
(***************************************************************************)
SpecRecovery == Init /\ [][NextRecovery]_vars

(***************************************************************************)
(* Scale requests in any order.                                            *)
(***************************************************************************)
SpecReplicas == Init /\ [][NextReplicas]_vars

(***************************************************************************)
(* Properties of the monitoring loop (Spec).                               *)
(***************************************************************************)
\* The list the planner was given in the current pass.
PlannerInput ==
    IF phase = "verify" THEN CriticalIssues(health_issues) ELSE health_issues

InFlight == {i \in DOMAIN recovery_tasks : recovery_tasks[i].state = "in_flight"}

SameKey(a, b) == a.component = b.component /\ a.issue_type = b.issue_type

\* Plan entries for the (component, issue_type) of issue x.
PlannedFor(x) ==
    {i \in DOMAIN recovery_plan : SameKey(recovery_plan[i][1], x)}

\* A task for the key of x was created less than its cooldown ago.
DispatchedWithinCooldown(x) ==
    /\ CooldownKey(x) \in DOMAIN last_dispatch
    /\ now - last_dispatch[CooldownKey(x)] < x.cooldown_period

\* C1: single-flight recovery.  At every instant at most one in-flight task
\* exists per (component, issue_type); and when a planning pass has produced
\* a plan, every auto-recoverable issue of the list it was given, however
\* often the list repeats it, has exactly one dispatch in its cooldown
\* window: one entry in the plan about to be dispatched, or one task created
\* less than a cooldown ago and then no entry.
C1_SingleFlightRecovery ==
    /\ \A i, j \in InFlight :
         i # j => ~SameKey(recovery_tasks[i].issue, recovery_tasks[j].issue)
    /\ pc = "execute" =>
         \A n \in DOMAIN PlannerInput :
            LET x == PlannerInput[n] IN
            x.auto_recoverable =>
               Cardinality(PlannedFor(x))
                 + (IF DispatchedWithinCooldown(x) THEN 1 ELSE 0) = 1

\* C1 witness: a list repeating one auto-recoverable issue was planned and
\* its single task is in flight.
C1_Witness ==
    /\ pc = "gather"
    /\ Len(health_issues) = 2
    /\ health_issues[1] = health_issues[2]
    /\ health_issues[1].auto_recoverable
    /\ Cardinality(InFlight) = 1

\* C2: cooldown respected.  Whenever a plan is about to be dispatched, every
\* key in it was last dispatched at least its cooldown_period ago (or never),
\* in the regular pass and in verify_system_recovery alike, and the plan does
\* not name a key twice.
C2_CooldownRespected ==
    pc = "execute" =>
      /\ \A i \in DOMAIN recovery_plan :
           LET x == recovery_plan[i][1] IN
           CooldownKey(x) \in DOMAIN last_dispatch =>
              now - last_dispatch[CooldownKey(x)] >= x.cooldown_period
      /\ \A i, j \in DOMAIN recovery_plan :
           i # j => ~SameKey(recovery_plan[i][1], recovery_plan[j][1])

\* C2 witness: a key dispatched before is dispatched again, its cooldown over.
C2_Witness ==
    /\ pc = "execute"
    /\ \E i \in DOMAIN recovery_plan :
         /\ CooldownKey(recovery_plan[i][1]) \in DOMAIN last_dispatch
         /\ now - last_dispatch[CooldownKey(recovery_plan[i][1])]
              = recovery_plan[i][1].cooldown_period

\* C3: an issue with auto_recoverable = False is never planned, never has a
\* task, and its key is never claimed in the ledger nor dispatched.
C3_NotAutoRecoverableNeverActedOn ==
    /\ \A i \in DOMAIN recovery_plan : recovery_plan[i][1].auto_recoverable
    /\ \A i \in DOMAIN recovery_tasks : recovery_tasks[i].issue.auto_recoverable
    /\ \A x \in IssueCatalog :
         ~x.auto_recoverable =>
            /\ CooldownKey(x) \notin DOMAIN action_cooldowns
            /\ CooldownKey(x) \notin DOMAIN last_dispatch

\* C3 witness: a scan reported a non-recoverable issue next to a recoverable
\* one, and the plan made from it is being executed.
C3_Witness ==
    /\ pc = "gather"
    /\ \E n \in DOMAIN PlannerInput : ~PlannerInput[n].auto_recoverable
    /\ InFlight # {}

\* C4 as claimed: no two in-flight recovery actions act on the same component.
C4_OneRemediationPerComponent ==
    \A i, j \in InFlight :
       i # j => recovery_tasks[i].issue.component # recovery_tasks[j].issue.component

\* C4 as amended: two recovery actions in flight on the same component always
\* stem from different issue types; the ledger separates actions per
\* (component, issue_type), not per component.
C4_OneRemediationPerComponentAndIssueType ==
    \A i, j \in InFlight :
       (i # j /\ recovery_tasks[i].issue.component
                   = recovery_tasks[j].issue.component)
         => recovery_tasks[i].issue.issue_type # recovery_tasks[j].issue.issue_type

\* C4 witness: two actions in flight on one component.
C4_Witness ==
    \E i, j \in InFlight :
       /\ i # j
       /\ recovery_tasks[i].issue.component = recovery_tasks[j].issue.component

(***************************************************************************)
(* Properties of update_system_status (SpecHealth).                        *)
(***************************************************************************)
\* C5: the published health score lies in [0, 100] and is 100 when the
\* active-incident list is empty.
C5_HealthScoreBounds ==
    /\ health_score >= 0
    /\ health_score <= 100
    /\ (active_issues = EmptyBag => health_score = 100)

\* C5 witness: the weighted impact exceeds 100 and the score sits on the floor.
C5_Witness ==
    /\ CopiesIn(Severity_EMERGENCY, active_issues) >= 11
    /\ health_score = 0

SamePair(a, b) == a.device_id = b.device_id /\ a.anomaly_type = b.anomaly_type

\* Positions of the input results with the (device_id, anomaly_type) of r.
InputsOf(r) == {n \in DOMAIN all_results : SamePair(all_results[n], r)}

\* Positions of the fused incidents with the (device_id, anomaly_type) of r.
FusedOf(r) == {i \in DOMAIN sorted_results : SamePair(sorted_results[i], r)}

\* Input positions of the pair of r that carry the pair's highest severity.
TopInputsOf(r) ==
    {n \in InputsOf(r) :
       \A m \in InputsOf(r) : all_results[m].severity <= all_results[n].severity}

MinOf(S) == CHOOSE n \in S : \A m \in S : n <= m

\* C7: severity monotonicity.  For every (device_id, anomaly_type) occurring
\* in the input the output holds exactly one incident, whose severity is not
\* lower than that of any input result of the pair.
C7_SeverityMonotonicity ==
    fusion_pc = "done" =>
      \A n \in DOMAIN all_results :
         /\ Cardinality(FusedOf(all_results[n])) = 1
         /\ \A i \in FusedOf(all_results[n]) :
              sorted_results[i].severity >= all_results[n].severity

\* C7 witness: a pair reported twice, the later result more severe, fused.
C7_Witness ==
    /\ fusion_pc = "done"
    /\ \E n, m \in DOMAIN all_results :
         /\ n < m
         /\ SamePair(all_results[n], all_results[m])
         /\ all_results[n].severity < all_results[m].severity

\* C8 as claimed: the result kept for a pair has the pair's highest severity
\* and, among the results of that severity, the highest confidence.
C8_KeepsHigherConfidence ==
    fusion_pc = "done" =>
      \A i \in DOMAIN sorted_results :
         \A n \in TopInputsOf(sorted_results[i]) :
            /\ sorted_results[i].severity = all_results[n].severity
            /\ sorted_results[i].confidence_score
                 >= all_results[n].confidence_score

\* C8 as amended: the result kept for a pair is the first, in the order of
\* concatenation, of the results that carry the pair's highest severity.
C8_KeepsFirstOfHighestSeverity ==
    fusion_pc = "done" =>
      \A i \in DOMAIN sorted_results :
         sorted_results[i] = all_results[MinOf(TopInputsOf(sorted_results[i]))]

\* C8 witness: two results of one pair tie on the highest severity and
\* differ in confidence, the more confident one coming later.
C8_Witness ==
    /\ fusion_pc = "done"
    /\ \E n, m \in DOMAIN all_results :
         /\ n < m
         /\ m \in TopInputsOf(all_results[n])
         /\ n \in TopInputsOf(all_results[n])
         /\ all_results[n].confidence_score < all_results[m].confidence_score

\* Two scorers flag the same pair with different severities.
ScorersDisagree(n, m) ==
    /\ SamePair(all_results[n], all_results[m])
    /\ all_results[n].model_used # all_results[m].model_used
    /\ all_results[n].severity # all_results[m].severity

\* C9 as claimed: the single fused incident carries the higher severity and
\* a confidence strictly greater than either scorer reported.
C9_AgreementLift ==
    fusion_pc = "done" =>
      \A n, m \in DOMAIN all_results :
         ScorersDisagree(n, m) =>
            /\ Cardinality(FusedOf(all_results[n])) = 1
            /\ \A i \in FusedOf(all_results[n]) :
                 /\ sorted_results[i].severity >= all_results[n].severity
                 /\ sorted_results[i].severity >= all_results[m].severity
                 /\ sorted_results[i].confidence_score
                      > all_results[n].confidence_score
                 /\ sorted_results[i].confidence_score
                      > all_results[m].confidence_score

\* C9 as amended: the single fused incident carries the higher severity and
\* is one of the scorers' results as reported: its confidence is the one
\* reported with that severity, never lifted above what the scorers reported.
C9_HigherSeverityNoLift ==
    fusion_pc = "done" =>
      \A n, m \in DOMAIN all_results :
         ScorersDisagree(n, m) =>
            /\ Cardinality(FusedOf(all_results[n])) = 1
            /\ \A i \in FusedOf(all_results[n]) :
                 /\ sorted_results[i].severity >= all_results[n].severity
                 /\ sorted_results[i].severity >= all_results[m].severity
                 /\ \E k \in InputsOf(all_results[n]) :
                      sorted_results[i] = all_results[k]

\* C9 witness: the isolation forest and the LSTM flag one pair, HIGH and
\* CRITICAL, and the fusion has run.
C9_Witness ==
    /\ fusion_pc = "done"
    /\ \E n, m \in DOMAIN all_results :
         /\ ScorersDisagree(n, m)
         /\ all_results[n].severity = SeverityLevel_HIGH
         /\ all_results[m].severity = SeverityLevel_CRITICAL

\* The full ranking key: severity descending, confidence descending,
\* timestamp ascending, device id ascending.
RankedBefore(a, b) ==
    \/ a.severity > b.severity
    \/ /\ a.severity = b.severity
       /\ \/ a.confidence_score > b.confidence_score
          \/ /\ a.confidence_score = b.confidence_score
             /\ \/ a.timestamp < b.timestamp
                \/ /\ a.timestamp = b.timestamp
                   /\ \/ a.device_id = b.device_id
                      \/ a.device_id = "D1" /\ b.device_id = "D2"

\* C10 as claimed: the returned list is ordered by the full ranking key.
C10_DeterministicRanking ==
    fusion_pc = "done" =>
      \A i, j \in DOMAIN sorted_results :
         i < j => RankedBefore(sorted_results[i], sorted_results[j])

\* C10 as amended: the returned list is ordered by severity descending, then
\* confidence descending; incidents that tie on both stand in the order in
\* which their (device_id, anomaly_type) first occurs in the supplied results.
C10_RankingBySeverityConfidenceThenSupplyOrder ==
    fusion_pc = "done" =>
      \A i, j \in DOMAIN sorted_results :
         i < j =>
           LET a == sorted_results[i]
               b == sorted_results[j]
           IN  \/ a.severity > b.severity
               \/ /\ a.severity = b.severity
                  /\ a.confidence_score > b.confidence_score
               \/ /\ a.severity = b.severity
                  /\ a.confidence_score = b.confidence_score
                  /\ MinOf(InputsOf(a)) < MinOf(InputsOf(b))

\* C10 witness: two incidents tie on severity and confidence and the one
\* supplied first, which stands first, was observed later.
C10_Witness ==
    /\ fusion_pc = "done"
    /\ \E i, j \in DOMAIN sorted_results :
         /\ i < j
         /\ sorted_results[i].severity = sorted_results[j].severity
         /\ sorted_results[i].confidence_score = sorted_results[j].confidence_score
         /\ sorted_results[i].timestamp > sorted_results[j].timestamp

(***************************************************************************)
(* Properties of the backend workers (SpecBackend).                        *)
(***************************************************************************)
\* The readings of a list, as a set.
Elements(seq) == {seq[i] : i \in 1..Len(seq)}

\* The rows of one device appear oldest first.
ChronologicalPerDevice(rows) ==
    \A i, j \in 1..Len(rows) :
        (i < j /\ rows[i].sensor_id = rows[j].sensor_id)
            => rows[i].timestamp < rows[j].timestamp

\* No fetched reading left out of rows is newer than a row.
MostRecentOf(rows, fetched) ==
    \A left \in Elements(fetched) \ Elements(rows) :
        \A row \in Elements(rows) : left.timestamp < row.timestamp

\* C11 (as claimed): the rows the inference worker hands to the sequence
\* model are, for every device, in arrival order (oldest first), and they
\* are the most recent readings of the fetched list.
C11_OrderPreservation ==
    sequence_data # <<>> =>
        /\ ChronologicalPerDevice(sequence_data)
        /\ MostRecentOf(sequence_data, recent_data)

\* A reading with every channel present.
AllChannels(data) ==
    {"temperature", "humidity", "pressure", "acceleration"} \subseteq DOMAIN data

\* The document of sensor_id saved in the last iteration.
SavedThisIteration(sensor_id) ==
    \E i \in 1..Len(sensor_readings) :
        /\ sensor_readings[i].sensor_id = sensor_id
        /\ sensor_readings[i].timestamp \in
               {Timestamp(tick, pos) : pos \in 1..Len(SensorOrder)}

\* C17 (as claimed): in every batch, a reading with a missing channel is
\* left out and every other reading of the batch is preprocessed, saved and
\* broadcast in the same iteration.
C17_InvalidReadingDroppedAlone ==
    raw_data # NoEntries =>
        \A sensor_id \in SensorIds :
            IF AllChannels(raw_data[sensor_id])
            THEN /\ ~processed_data.raised
                 /\ sensor_id \in DOMAIN processed_data.data
                 /\ SavedThisIteration(sensor_id)
                 /\ last_broadcast.sent
                 /\ sensor_id \in DOMAIN last_broadcast.data
            ELSE /\ sensor_id \notin DOMAIN processed_data.data
                 /\ ~SavedThisIteration(sensor_id)

(***************************************************************************)
(* Properties of the scorers (SpecColdStart).                              *)
(***************************************************************************)
\* The minimum window of the model a path runs: the outlier tree's for
\* the isolation-forest paths, the sequence model's for the LSTM paths.
MinWindow(path) ==
    IF path \in {"detect_isolation_forest_anomalies", "detect_anomalies"}
    THEN IsolationForestMinRows ELSE LstmParamsSequenceLength

\* C18 (as claimed): on every scoring path, the model does not run for a
\* device that has fewer readings than the minimum window.
C18_ColdStartOnEveryPath ==
    model_rows > 0 => scoring_rows >= MinWindow(scoring_path)

\* C18 (amended): the detectors of the anomaly detector do not run their
\* model below their minimum (5 readings for the isolation forest, more
\* than 60 for the LSTM); the engine called by the inference worker runs
\* its models on every list that is not empty.
C18_ColdStartInDetectorsOnly ==
    /\ (scoring_path = "detect_isolation_forest_anomalies" /\ model_rows > 0)
          => scoring_rows >= IsolationForestMinRows
    /\ (scoring_path = "detect_lstm_anomalies" /\ model_rows > 0)
          => scoring_rows > LstmParamsSequenceLength
    /\ scoring_path \in {"detect_anomalies", "run_inference"}
          => (model_rows > 0 <=> scoring_rows > 0)

\* The engine scored a single reading.
C18_Witness ==
    /\ scoring_path = "run_inference"
    /\ scoring_rows = 1
    /\ model_rows = 1

(***************************************************************************)
(* Properties of the long-running loops (SpecLifecycle).                   *)
(***************************************************************************)
\* C13 (as claimed): once shutdown has completed, every worker created at
\* startup has returned.
C13_GracefulShutdown ==
    app_pc = "shutdown_done" =>
        \A w \in BackendWorkers : worker_state[w] = "returned"

\* C20 (as claimed): a loop whose iteration has raised the maximum number
\* of times in a row is no longer run.
C20_EscalationAfterFailures ==
    \A w \in Workers :
        consecutive_failures[w] >= MaxFailures => worker_state[w] # "running"

\* C20 (amended): a loop that was started is running, whatever the number
\* of its iterations that raised in a row; nothing stops or escalates it.
C20_LoopsRetriedForever ==
    \A w \in Workers :
        worker_state[w] # "not_started" => worker_state[w] = "running"

\* Loops whose last MaxFailures iterations all raised, still running.
C20_Witness ==
    /\ consecutive_failures["continuous_health_monitoring"] = MaxFailures
    /\ worker_state["continuous_health_monitoring"] = "running"
    /\ consecutive_failures["data_processing_worker"] = MaxFailures
    /\ worker_state["data_processing_worker"] = "running"

C15_ScalersShareLedger ==
    \A d \in ScaledDeployments :
        LET h == scale_history[d]
            apart == IF h.reactive >= h.predictive
                     THEN h.reactive - h.predictive
                     ELSE h.predictive - h.reactive
        IN  (h.reactive # -1 /\ h.predictive # -1)
                => apart >= Ticks(DefaultCooldownSeconds)

(***************************************************************************)
(* Properties of the probes (SpecProbes).                                  *)
(***************************************************************************)
\* The issues of the last scan raised on the component of a probe.
IssuesOf(probe) ==
    SelectSeq(health_issues,
              LAMBDA issue : issue.component = ProbeComponent(probe))

C16_CriticalIncidentsNotified ==
    webhooks.loaded =>
        /\ webhooks.slack =>
              \A i \in 1..Len(health_issues) :
                  health_issues[i].severity >= Severity_CRITICAL =>
                      health_issues[i].component \in Elements(notifications)
        /\ webhooks.alert => alerted.critical = anomaly_run.critical

\* C16 (amended): the health scan notifies about executed recovery
\* actions only, so no notification names the component of an incident
\* that is not auto-recoverable, whatever its severity; the anomaly run
\* posts the first ten results of severity HIGH and above, the Critical
\* ones first; nothing is sent without the webhook.
C16_NotifiesRecoveriesAndFirstTen ==
    webhooks.loaded =>
        /\ SensorHighOfflineRate.component \notin Elements(notifications)
        /\ ~webhooks.slack => notifications = <<>>
        /\ alerted.critical + alerted.high <= AlertLimit
        /\ webhooks.alert =>
              /\ alerted.critical = Min(anomaly_run.critical, AlertLimit)
              /\ alerted.critical + alerted.high =
                     Min(anomaly_run.critical + anomaly_run.high, AlertLimit)
        /\ ~webhooks.alert => alerted = NothingAlerted

\* Both webhooks set: a scan with a Critical incident that is not
\* auto-recoverable and a Critical one that is, only the second notified;
\* and an anomaly run with eleven Critical results, ten of them alerted.
C16_Witness ==
    /\ webhooks.loaded
    /\ webhooks.slack /\ webhooks.alert
    /\ health_issues = <<SensorHighOfflineRate, DatabaseConnectionError>>
    /\ notifications = <<"database">>
    /\ anomaly_run.critical = AlertLimit + 1
    /\ alerted.critical = AlertLimit

(***************************************************************************)
(* Properties of the active incidents and stored anomalies                 *)
(* (SpecResolution).                                                       *)
(***************************************************************************)
\* A stored anomaly whose device a later run no longer reports.
NoLongerFound(row) == row.run < runs /\ row.device_id \notin last_results

LastPass == now - 1

\* The records the last pass appended.
ResultsOfLastPass ==
    SelectSeq(recovery_history, LAMBDA r : r.timestamp = LastPass)

\* C21 (as claimed): an action whose precondition fails (a scale-up of a
\* deployment already at its maximum) is declined: it is not recorded as a
\* successful recovery and claims no cooldown.
C21_ActionSelection ==
    \A i \in 1..Len(recovery_history) :
        LET r == recovery_history[i] IN
        r.message = "unnecessary" =>
            /\ ~r.success
            /\ \A k \in DOMAIN action_cooldowns :
                  action_cooldowns[k] # r.timestamp

\* C21 (amended): the planner takes the first recommended action of every
\* incident it plans, whatever the state of the target, and claims the
\* cooldown then; a scale-up at the maximum changes nothing and is
\* recorded as a success.
C21_FirstActionUnconditionally ==
    /\ \A i \in 1..Len(recovery_plan) :
          LET issue == recovery_plan[i][1] IN
          /\ recovery_plan[i][2] = issue.recovery_actions[1]
          /\ action_cooldowns[CooldownKey(issue)] = LastPass
    /\ \A i \in 1..Len(recovery_history) :
          LET r == recovery_history[i] IN
          r.action = "scale_up" =>
              /\ r.message \in {"scaled", "unnecessary", "failed"}
              /\ r.success <=> r.message # "failed"

\* The API deployment is at its maximum, the pass planned a scale-up for
\* the slow API, claimed the cooldown and recorded a success.
C21_Witness ==
    /\ replicas["hankook-api"] = ReactiveMaxReplicas
    /\ recovery_plan = <<<<ApiHighResponseTime, "scale_up">>>>
    /\ action_cooldowns[CooldownKey(ApiHighResponseTime)] = LastPass
    /\ ResultsOfLastPass =
          <<RecoveryResult("scale_up", "api-server", TRUE, "unnecessary",
                           LastPass)>>

\* The action failed for the component in a pass before the last one.
FailedBefore(component, action) ==
    \E j \in 1..Len(recovery_history) :
        /\ recovery_history[j].target = component
        /\ recovery_history[j].action = action
        /\ ~recovery_history[j].success
        /\ recovery_history[j].timestamp < LastPass

\* C22: when the action dispatched for an incident failed and the
\* condition is found again after the cooldown, the planning pass moves on
\* in the incident's list: the action it selects is not the one that
\* failed.
C22_FallbackAfterFailure ==
    \A i \in 1..Len(recovery_plan) :
        ~FailedBefore(recovery_plan[i][1].component, recovery_plan[i][2])

\* The cooldown of the rule that reports on a component.
CooldownOf(component) ==
    (CHOOSE issue \in {ApiHighResponseTime, RedisConnectionSpike} :
        issue.component = component).cooldown_period

CooldownOfKey(key) ==
    (CHOOSE issue \in {ApiHighResponseTime, RedisConnectionSpike} :
        CooldownKey(issue) = key).cooldown_period

\* C24: in every step no ledger entry is removed; an entry changes only if
\* its cooldown has fully elapsed, and then to the time of the pass; an
\* incident found while its key is inside the cooldown is not planned and
\* leaves its entry as it was; a planned incident installs the time of
\* the pass.
C24_RefusedClaimChangesNothing ==
    [][ /\ \A k \in DOMAIN action_cooldowns :
              /\ k \in DOMAIN action_cooldowns'
              /\ \/ action_cooldowns'[k] = action_cooldowns[k]
                 \/ /\ now - action_cooldowns[k] >= CooldownOfKey(k)
                    /\ action_cooldowns'[k] = now
        /\ now' # now =>
              /\ \A i \in 1..Len(health_issues') :
                    LET issue == health_issues'[i] IN
                    InCooldown(issue, action_cooldowns, now) =>
                        /\ \A n \in 1..Len(recovery_plan') :
                              recovery_plan'[n][1] # issue
                        /\ action_cooldowns'[CooldownKey(issue)]
                              = action_cooldowns[CooldownKey(issue)]
              /\ \A n \in 1..Len(recovery_plan') :
                    LET key == CooldownKey(recovery_plan'[n][1]) IN
                    /\ key \in DOMAIN action_cooldowns'
                    /\ action_cooldowns'[key] = now
      ]_vars

\* The last pass found the slow API while its key was inside the
\* cooldown claimed by an earlier pass: nothing planned, the entry kept.
C24_Witness ==
    /\ health_issues = <<ApiHighResponseTime>>
    /\ recovery_plan = <<>>
    /\ CooldownKey(ApiHighResponseTime) \in DOMAIN action_cooldowns
    /\ action_cooldowns[CooldownKey(ApiHighResponseTime)] < LastPass
    /\ InCooldown(ApiHighResponseTime, action_cooldowns, LastPass)

TickWithModel ==
    pc = "sleep" /\ scaling_decision.decision \notin {"none", "train"}

\* What the last call found: a predicted load above the scale-up
\* threshold, one below the scale-down threshold.
LoadAbove ==
    scaling_decision.predicted /\ scaling_decision.predicted_load > ScaleUpLoad
LoadBelow ==
    scaling_decision.predicted
        /\ scaling_decision.predicted_load < ScaleDownLoad

\* The rule of the decision, for the last call.
DecisionRule ==
    /\ scaling_decision.decision = "up"
          <=> (LoadAbove \/ scaling_decision.peak_hour)
    /\ scaling_decision.decision = "down"
          <=> (~(LoadAbove \/ scaling_decision.peak_hour) /\ LoadBelow)
    /\ scaling_decision.decision = "down" => ~scaling_decision.peak_hour

\* C26 (as claimed): in every call of predictive_scaling with a trained
\* model, scale-up is requested iff the predicted load is above the
\* threshold or the hour is a peak hour, scale-down iff neither holds and
\* the load is below the scale-down threshold; never during a peak hour.
C26_ScalerDecisionEveryTick ==
    TickWithModel => DecisionRule

\* C26 (amended): the rule holds in every call that collected its metrics
\* and predicted a load; a call whose metrics could not be collected
\* requests nothing, in a peak hour too.
C26_ScalerDecisionWhenPredicted ==
    TickWithModel =>
        /\ scaling_decision.predicted => DecisionRule
        /\ ~scaling_decision.predicted =>
              /\ scaling_decision.decision = "no_metrics"
              /\ \A d \in ScaledDeployments :
                    scale_history[d].predictive # now

\* A low load predicted in a peak hour: scale-up, not scale-down.
C26_Witness ==
    /\ TickWithModel
    /\ LoadBelow
    /\ scaling_decision.peak_hour
    /\ scaling_decision.decision = "up"

C28_WorkersNeverAborted ==
    /\ [](\A w \in Workers :
             consecutive_failures[w] > 0 => worker_state[w] = "running")
    /\ \A w \in Workers : \A k \in 1..MaxFailures :
           (consecutive_failures[w] = k) ~> (consecutive_failures[w] # k)

\* While the application serves, an iteration of ai_inference_worker
\* raised and the next one raised as well; health_check_worker raised
\* once; both loops go on.
C28_Witness ==
    /\ app_pc = "serving"
    /\ consecutive_failures["ai_inference_worker"] = 2
    /\ consecutive_failures["health_check_worker"] = 1
    /\ worker_state["ai_inference_worker"] = "running"
    /\ worker_state["health_check_worker"] = "running"

(***************************************************************************)
(* Properties of recovery_history (SpecRecovery).                          *)
(***************************************************************************)
\* C29: no step removes or rewrites a record of recovery_history, and a
\* monitoring pass appends exactly one record for each entry of its plan,
\* in the plan's order, with the entry's action and target, whether the
\* action succeeded or failed.
C29_RecordsCompleteAppendOnly ==
    [][/\ Len(recovery_history') >= Len(recovery_history)
       /\ SubSeq(recovery_history', 1, Len(recovery_history))
              = recovery_history
       /\ now' = now =>  recovery_history' = recovery_history
       /\ now' # now =>
             /\ Len(recovery_history')
                    = Len(recovery_history) + Len(recovery_plan')
             /\ \A n \in 1..Len(recovery_plan') :
                   LET r == recovery_history'[Len(recovery_history) + n]
                   IN  /\ r.action = recovery_plan'[n][2]
                       /\ r.target = recovery_plan'[n][1].component
                       /\ r.timestamp = now]_vars

\* The history holds the record of a failed action followed by records of
\* successful ones from later passes, and the last pass planned two
\* actions and recorded both.
C29_Witness ==
    /\ Len(recovery_history) >= 4
    /\ ~recovery_history[1].success
    /\ recovery_history[Len(recovery_history)].success
    /\ Len(recovery_plan) = 2
    /\ Len(ResultsOfLastPass) = 2

(***************************************************************************)
(* Properties of the circuit breakers (SpecRecovery).                      *)
(***************************************************************************)
\* C30 (as claimed): a breaker that activate_circuit_breaker opened is
\* closed again once its next_retry time has come.
C30_BreakerClosesByNextRetry ==
    \A c \in DOMAIN circuit_breakers :
        now >= circuit_breakers[c].next_retry => ~circuit_breakers[c].active

\* The breaker of the cache was opened by the last pass.
C30_Witness ==
    /\ "redis" \in DOMAIN circuit_breakers
    /\ circuit_breakers["redis"].active
    /\ circuit_breakers["redis"].activated_at = LastPass
    /\ circuit_breakers["redis"].next_retry
           = LastPass + Ticks(CircuitBreakerRetrySeconds)

(***************************************************************************)
(* Properties of the chaos tests (SpecChaos).                              *)
(***************************************************************************)
\* C31 (as claimed): after an injection whose verification found the
\* system not recovered, an incident of severity EMERGENCY is raised and no
\* later injection happens on that day.
C31_ChaosSelfDisable ==
    \A i \in 1..Len(chaos_log) :
        chaos_log[i].critical_issues # <<>> =>
            /\ \E k \in 1..Len(chaos_log[i].critical_issues) :
                  chaos_log[i].critical_issues[k].severity
                      = Severity_EMERGENCY
            /\ \A j \in (i + 1)..Len(chaos_log) :
                  DayOf(chaos_log[j].at) # DayOf(chaos_log[i].at)

\* C31 (amended): verification only plans the recovery of the issues of
\* severity ERROR and above its scan found, it raises no incident of its
\* own, the setting stays as loaded, and every pass that ends inside a
\* chaos hour injects again, whatever the verifications before it found.
C31_ChaosInEveryPassOfTheWindow ==
    /\ \A i \in 1..Len(chaos_log) :
          /\ chaos_enabled.value
          /\ HourOf(chaos_log[i].at) \in ChaosHours
          /\ \A k \in 1..Len(chaos_log[i].critical_issues) :
                LET issue == chaos_log[i].critical_issues[k]
                IN  /\ issue.severity >= Severity_ERROR
                    /\ \E issues \in ChaosScanResults :
                          \E n \in 1..Len(issues) : issues[n] = issue
          /\ (i < Len(chaos_log)
                /\ HourOf(chaos_log[i].verified_at + 1) \in ChaosHours)
                => chaos_log[i + 1].at = chaos_log[i].verified_at + 1
    /\ (pc = "health_check" /\ chaos_enabled.value /\ chaos_log # <<>>)
          => \/ now = chaos_log[Len(chaos_log)].verified_at + 1
             \/ ~(HourOf(chaos_log[Len(chaos_log)].verified_at + 1)
                     \in ChaosHours)

\* Two injections in one chaos hour, the second one after a verification
\* that found the cache still failing.
C31_Witness ==
    /\ Len(chaos_log) = 2
    /\ chaos_log[1].critical_issues = <<RedisConnectionSpike>>
    /\ DayOf(chaos_log[2].at) = DayOf(chaos_log[1].at)
    /\ HourOf(chaos_log[2].at) = 2

(***************************************************************************)
(* Properties of the quality score (SpecQuality).                          *)
(***************************************************************************)
\* The channels of a reading whose value its normaliser changes.
ClippedChannels(data) ==
    {f \in DOMAIN data :
        LET normalized ==
                CASE f = "temperature" -> normalize_temperature(Some(data[f]))
                  [] f = "humidity" -> normalize_humidity(Some(data[f]))
                  [] f = "pressure" -> normalize_pressure(Some(data[f]))
                  [] f = "acceleration" ->
                         normalize_acceleration(Some(data[f]))
        IN  normalized.value # data[f]}

\* C32 (as claimed): the score of a raw reading is, in hundredths,
\* max(0, 100 - 25 * missing channels - 10 * clipped channels) over the
\* four channels, and lies in 0..100.
C32_QualityScore ==
    quality_call.called =>
        LET data == quality_call.data
            missing == Cardinality(DOMAIN ChannelValues \ DOMAIN data)
            clipped == Cardinality(ClippedChannels(data))
        IN  /\ quality_call.quality_score
                  = Max(0, 100 - 25 * missing - 10 * clipped)
            /\ quality_call.quality_score \in 0..100

\* A complete reading whose pressure is above the range was scored.
C32_Witness ==
    /\ quality_call.called
    /\ DOMAIN quality_call.data = DOMAIN ChannelValues
    /\ ClippedChannels(quality_call.data) = {"pressure"}

(***************************************************************************)
(* Properties of the rule-based probes (SpecRules).                        *)
(***************************************************************************)
\* The rules of the host: those whose name names no other subsystem.
HostRuleNames == {"high_cpu_usage", "high_memory_usage", "disk_space_critical"}

RuleNamed(name) ==
    CHOOSE rule \in {RecoveryRules[i] : i \in 1..Len(RecoveryRules)} :
        rule.name = name

\* C33 (as claimed): an issue of a redis_* rule is on component 'redis',
\* an issue of a database_* rule on component 'database', and the host
\* probe raises only high_cpu_usage, high_memory_usage and
\* disk_space_critical.
C33_ProbesRaiseOwnRules ==
    \A i \in 1..Len(rule_scan.issues) :
        LET issue == rule_scan.issues[i]
            rule == RuleNamed(issue.issue_type)
        IN  /\ rule.words[1] = "redis" => issue.component = "redis"
            /\ rule.words[1] = "database" => issue.component = "database"
            /\ rule_scan.probe = "check_system_resources"
                  => issue.issue_type \in HostRuleNames

\* The host probe ran with memory above 90 % and the disk above 85 %.
C33_Witness ==
    /\ rule_scan.probe = "check_system_resources"
    /\ rule_scan.metrics.memory_usage_percent > 90
    /\ rule_scan.metrics.disk_usage_percent > 85
    /\ Len(rule_scan.issues) >= 2

(***************************************************************************)
(* Properties of the target of a recovery action (SpecTarget).             *)
(***************************************************************************)
\* The deployment that owns a pod: the pod's name without its two hashes.
OwnerOfPod(component) == SubSeq(component, 2, Len(component) - 2)

\* C34 (as claimed): for a pod incident the action acts on the deployment
\* that owns the pod, and incidents on pods of different deployments act on
\* different deployments.
C34_TargetResolution ==
    /\ \A i \in 1..Len(target_calls) :
          target_calls[i].component \in PodComponents
              => target_calls[i].deployment
                     = JoinParts(OwnerOfPod(target_calls[i].component))
    /\ \A i, j \in 1..Len(target_calls) :
          (/\ target_calls[i].component \in PodComponents
           /\ target_calls[j].component \in PodComponents
           /\ OwnerOfPod(target_calls[i].component)
                 # OwnerOfPod(target_calls[j].component))
              => target_calls[i].deployment # target_calls[j].deployment

\* An action on a pod of the API and one on a pod of the front end.
C34_Witness ==
    /\ Len(target_calls) = 2
    /\ target_calls[1].component = <<"pod", "hankook", "api", "7d9f", "abc">>
    /\ target_calls[1].action = "restart_pod"
    /\ target_calls[2].component
           = <<"pod", "hankook", "frontend", "5c8b", "xk2">>
    /\ target_calls[2].action = "scale_up"

(***************************************************************************)
(* Properties of the sliding-window rate limiter (SpecLimiter).            *)
(***************************************************************************)
\* The calls the store answered with allowed = True during the `window`
\* seconds that start at `from`.
AllowedWithin(from) ==
    {i \in 1..Len(limiter_calls) :
        /\ limiter_calls[i].allowed
        /\ ~limiter_calls[i].raised
        /\ limiter_calls[i].at \in from..(from + LimiterWindow - 1)}

\* C35 (as claimed): in any interval of `window` seconds at most `limit`
\* calls are answered allowed = True, also when several calls come within
\* one second.
C35_SlidingWindowLimit ==
    \A from \in 0..MaxLimiterClock :
        Cardinality(AllowedWithin(from)) <= LimiterLimit

\* More calls than the limit came within one second and Redis answered
\* each of them.
C35_Witness ==
    /\ Len(limiter_calls) > LimiterLimit
    /\ \A i \in 1..Len(limiter_calls) :
          /\ limiter_calls[i].at = 1
          /\ ~limiter_calls[i].raised

(***************************************************************************)
(* Properties of the fixed-window rate limiter (SpecStore).                *)
(***************************************************************************)
\* C36 (as claimed): the calls allowed against one window of the counter
\* are at most `limit`; the counter key, while it exists, carries an
\* expiry; and a call is refused only within `window` seconds of an
\* allowed call, so that an identifier is allowed again once the window
\* has elapsed.
C36_FixedWindowRecovers ==
    /\ \A w \in 0..MaxStoreClock :
          Cardinality({i \in 1..Len(rate_answers) :
                          /\ rate_answers[i].allowed
                          /\ ~rate_answers[i].raised
                          /\ rate_answers[i].window_start = w}) <= RateLimit
    /\ LiveCounter(counter_key, store_clock).exists
          => counter_key.expires_at >= 0
    /\ \A i \in 1..Len(rate_answers) :
          ~rate_answers[i].allowed =>
              \E j \in 1..(i - 1) :
                  /\ rate_answers[j].allowed
                  /\ ~rate_answers[j].raised
                  /\ rate_answers[j].done_at
                         > rate_answers[i].at - RateWindow

\* A call is refused although no call was allowed during the window
\* before it.
C36_Witness ==
    /\ counter_key.exists
    /\ counter_key.expires_at = -1
    /\ \E i \in 1..Len(rate_answers) :
          /\ ~rate_answers[i].allowed
          /\ \A j \in 1..(i - 1) :
                rate_answers[j].done_at <= rate_answers[i].at - RateWindow

(***************************************************************************)
(* Properties of the cache (SpecCache).                                    *)
(***************************************************************************)
\* C37 (as claimed): a get never returns a value whose ttl has passed, and
\* the memory cache never holds more entries than its limit.
C37_CacheTtlHonoured ==
    /\ cache_get.found => cache_get.at < cache_get.expires_at
    /\ Len(memory_cache) <= MemoryCacheLimit

\* A get served from the memory cache an entry whose ttl had passed, the
\* memory cache being full.
C37_Witness ==
    /\ cache_get.found
    /\ cache_get.from = "memory"
    /\ cache_get.at >= cache_get.expires_at
    /\ Len(memory_cache) = MemoryCacheLimit

(***************************************************************************)
(* Properties of the fleet probe (SpecFleet).                              *)
(***************************************************************************)
\* C38 (as claimed): on a 200 response with total_sensors > 0 the probe
\* reports CRITICAL when more than half of the sensors are offline, WARNING
\* when more than a fifth but not more than half are, HEALTHY otherwise.
C38_FleetSeverity ==
    (fleet_result.checked /\ fleet_result.response = "200"
        /\ fleet_result.total_sensors > 0) =>
        LET total == fleet_result.total_sensors
            offline == fleet_result.offline_sensors
        IN  fleet_result.status =
                IF 2 * offline > total THEN "critical"
                ELSE IF 5 * offline > total THEN "warning"
                ELSE "healthy"

\* C38 (what the probe does): WARNING whenever more than a fifth of the
\* sensors are offline, HEALTHY otherwise, never CRITICAL on a 200 response;
\* and the overall status is CRITICAL only through another component or a
\* failed request.
C38_FleetNeverCriticalOnData ==
    /\ (fleet_result.checked /\ fleet_result.response = "200"
           /\ fleet_result.total_sensors > 0) =>
          fleet_result.status =
              IF 5 * fleet_result.offline_sensors > fleet_result.total_sensors
              THEN "warning" ELSE "healthy"
    /\ (fleet_overall.asked /\ fleet_overall.status = "critical") =>
          \/ "critical" \in fleet_overall.others
          \/ fleet_overall.sensors = "critical"

\* More than half of the fleet was offline and the probe has reported.
C38_Witness ==
    /\ fleet_result.checked
    /\ fleet_result.response = "200"
    /\ fleet_result.total_sensors > 0
    /\ 2 * fleet_result.offline_sensors > fleet_result.total_sensors
    /\ fleet_overall.asked
    /\ fleet_overall.sensors = fleet_result.status

====
